---- MODULE Spec2Model ----
(***************************************************************************)
(* State-machine model of the SpiNNaker network_tester kernel              *)
(* (spinnaker_source/network_tester/network_tester.c): the command         *)
(* interpreter, the source/sink registry, the recorder, the traffic        *)
(* generation loop and the packet arrival callback.                        *)
(***************************************************************************)
EXTENDS Integers, Sequences, FiniteSets, TLC

(***************************************************************************)
(* Bounds of the model.                                                    *)
(***************************************************************************)
\* Number of command-stream words the interpreter may consume.
MaxCommandWords == 4
\* Largest source / sink count a NUM command asks for.
MaxSources == 2
MaxSinks == 1
\* Largest tick count a RUN command asks for.
MaxTicks == 2
\* Number of packets that arrive during one program.
MaxArrivals == 1
\* Number of packets the history follows.
MaxPackets == 2
\* Number of transfers the DMA controller queues before it refuses one.
DmaQueueSize == 1
\* Words of the result region that are modelled (word 0 and the first results).
SdramWords == 4

\* Number of times a hardware counter counts.
MaxCounts == 1
\* Number of timesteps of the longest run of a bursting source.
BurstTicks == 10

(***************************************************************************)
(* Program constants.                                                      *)
(***************************************************************************)
\* sv->cpu_clk, in MHz
CpuClk == 200

NT_CMD_EXIT == 0
NT_CMD_SLEEP == 1
NT_CMD_BARRIER == 2
NT_CMD_SEED == 3
NT_CMD_TIMESTEP == 4
NT_CMD_RUN == 5
NT_CMD_NUM == 6
NT_CMD_ROUTER_TIMEOUT == 7
NT_CMD_ROUTER_TIMEOUT_RESTORE == 8
NT_CMD_REINJECTION_ENABLE == 9
NT_CMD_REINJECTION_DISABLE == 10
NT_CMD_RUN_NO_RECORD == 11
NT_CMD_RECORD == 16
NT_CMD_RECORD_INTERVAL == 17
NT_CMD_PROBABILITY == 32
NT_CMD_BURST_PERIOD == 33
NT_CMD_BURST_DUTY == 34
NT_CMD_BURST_PHASE == 35
NT_CMD_SOURCE_KEY == 36
NT_CMD_PAYLOAD == 37
NT_CMD_NO_PAYLOAD == 38
NT_CMD_NUM_RETRIES == 39
NT_CMD_NUM_PACKETS == 40
NT_CMD_CONSUME == 48
NT_CMD_NO_CONSUME == 49
NT_CMD_SINK_KEY == 50

NT_ERR_STILL_RUNNING == 1
NT_ERR_MALLOC == 2
NT_ERR_DMA == 4
NT_ERR_UNKNOWN_COMMAND == 8
NT_ERR_BAD_ARGUMENTS == 16
NT_ERR_DEADLINE_MISSED == 32

RTR_DENABLE_MASK == 4

RECORD_SENT_BIT == 16777216
RECORD_BLOCKED_BIT == 33554432
RECORD_RECEIVED_BIT == 268435456

NUM_ROUTER_COUNTERS == 16
NUM_REINJECTOR_COUNTERS == 3
NUM_SOURCE_COUNTERS == 3
NUM_SINK_COUNTERS == 1

(***************************************************************************)
(* 32-bit arithmetic and bit operations.  A uint32_t is held as the integer *)
(* with the same two's-complement bits, from -2^31 to 2^31 - 1: 0xFFFFFFFF *)
(* is -1.  Sums and differences are taken on 16-bit halves, so that they   *)
(* wrap as the machine's do.                                               *)
(***************************************************************************)
W16 == 65536

MIN(a, b) == IF a < b THEN a ELSE b

\* The word with the given unsigned 16-bit halves
Word(hi, lo) == (IF hi >= 32768 THEN hi - W16 ELSE hi) * W16 + lo
\* The unsigned 16-bit halves of a word
Hi(x) == (x \div W16) % W16
Lo(x) == x % W16
\* a + b, a - b and a * k (k below 2^15) modulo 2^32
AddW(a, b) ==
    Word((Hi(a) + Hi(b) + ((Lo(a) + Lo(b)) \div W16)) % W16, (Lo(a) + Lo(b)) % W16)
SubW(a, b) ==
    Word((Hi(a) - Hi(b) + ((Lo(a) - Lo(b)) \div W16)) % W16, (Lo(a) - Lo(b)) % W16)
MulW(a, k) ==
    Word((Hi(a) * k + ((Lo(a) * k) \div W16)) % W16, (Lo(a) * k) % W16)
\* a / 1000 of unsigned words (2^31 = 2147483 * 1000 + 648)
DivThousand(a) ==
    IF a >= 0 THEN a \div 1000
    ELSE LET u == (a + 2147483647) + 1
         IN  2147483 + (u \div 1000) + (((u % 1000) + 648) \div 1000)
\* a < b of unsigned words
ULess(a, b) == IF (a >= 0) = (b >= 0) THEN a < b ELSE b < 0
\* 0xFFFFFFFF
AllOnes == Word(65535, 65535)

\* x & b # 0, for b a single bit below bit 31
HasBit(x, b) == (x \div b) % 2 = 1
\* x | b, for b a single bit below bit 31
OrBit(x, b) == IF HasBit(x, b) THEN x ELSE x + b
\* x & ~b, for b a single bit below bit 31
ClearBit(x, b) == IF HasBit(x, b) THEN x - b ELSE x
\* (rtr & ~0xFFFF0000) | (v & 0xFFFF0000)
WithTimeout(rtr, v) == Word(Hi(v), Lo(rtr))

US_TO_TICKS(us) == MulW(us, CpuClk)
NS_TO_TICKS(ns) == DivThousand(MulW(ns, CpuClk))

\* Room for one value of each source.
MAX_NUM_RESULTS_one(nsources, nsinks) ==
    NUM_ROUTER_COUNTERS + NUM_REINJECTOR_COUNTERS + nsources + (NUM_SINK_COUNTERS * nsinks)

MAX_NUM_RESULTS(nsources, nsinks) ==
    NUM_ROUTER_COUNTERS + NUM_REINJECTOR_COUNTERS
    + (NUM_SOURCE_COUNTERS * nsources) + (NUM_SINK_COUNTERS * nsinks)

(***************************************************************************)
(* Inputs: the words the host may place in the command stream, and the     *)
(* values the hardware and the runtime may return.                         *)
(***************************************************************************)
\* Opcodes that take an inline source/sink index.
IndexedCommands ==
    {NT_CMD_PROBABILITY, NT_CMD_BURST_PERIOD, NT_CMD_BURST_DUTY,
     NT_CMD_BURST_PHASE, NT_CMD_SOURCE_KEY, NT_CMD_PAYLOAD, NT_CMD_NO_PAYLOAD,
     NT_CMD_SINK_KEY}
\* Opcodes the host may write that take no inline index.
PlainCommands ==
    {NT_CMD_EXIT, NT_CMD_SLEEP, NT_CMD_BARRIER, NT_CMD_SEED, NT_CMD_TIMESTEP,
     NT_CMD_RUN, NT_CMD_NUM, NT_CMD_ROUTER_TIMEOUT,
     NT_CMD_ROUTER_TIMEOUT_RESTORE, NT_CMD_REINJECTION_ENABLE,
     NT_CMD_REINJECTION_DISABLE, NT_CMD_RECORD, NT_CMD_RECORD_INTERVAL,
     NT_CMD_CONSUME, NT_CMD_NO_CONSUME,
     NT_CMD_RUN_NO_RECORD, NT_CMD_NUM_RETRIES, NT_CMD_NUM_PACKETS, 255}
\* First words of instructions: opcode in bits 7:0, index in bits 15:8.
InstrWords ==
    PlainCommands \cup {c + 256 * n : c \in IndexedCommands, n \in 0..MaxSources}
\* Operand words.
SleepWords == {10}
SeedWords == {1}
TimestepWords == {0, 10}
RunWords == 0..MaxTicks
NumWords == {s + 256 * k : s \in 0..MaxSources, k \in 0..MaxSinks}
TimeoutWords == {1048576, 2097157}
RecordWords == {0, 1, RECORD_SENT_BIT + 65536, RECORD_BLOCKED_BIT + RECORD_RECEIVED_BIT}
IntervalWords == {0, 1, 2}
ProbabilityWords == {0, Word(32768, 0), AllOnes}
BurstWords == {0, 1, 2}
KeyWords == {256, Word(43707, 0)}
\* Routing keys of arriving packets (the low byte is not part of the key).
PacketKeys == {1, 257, Word(43707, 0)}
\* Values sark_rand() may return.
RandWords == {0, Word(32768, 0)}
\* How far past the deadline timer 2 is when the busy loop reads it: with
\* timestep 0 that is late, otherwise in time (SpecDeadline draws others).
Lags == {0}
\* The value timer 2 shows when a run starts (SpecDeadline draws others).
TimerWords == {1}
\* What a read of memory that was never written, or that has been freed, may give.
JunkWords == {0, Word(57005, 48879)}
\* The answers of spin1_dma_transfer that matter: none when it is not called.
DmaAnswers(called) == IF called THEN BOOLEAN ELSE {TRUE}
\* Which of the three sark_alloc calls of a resize return memory. A call is only
\* made when the ones before it did not end the resize.
AllocAnswers ==
    {<<TRUE, TRUE, TRUE>>, <<FALSE, TRUE, TRUE>>, <<TRUE, FALSE, TRUE>>, <<TRUE, TRUE, FALSE>>}
\* Initial value of the router control register.
ControlWords == {196612}

(***************************************************************************)
(* State.                                                                  *)
(***************************************************************************)
VARIABLES
    pc,                     \* "decode": in the interpreter loop; "run": inside run(); "exit": after spin1_exit
    commands_length,        \* c_main: commands_length, in words
    commands,               \* interpreter_main: commands, as a word offset into the loaded stream
    command,                \* interpreter_main: command of the instruction last decoded
    num,                    \* interpreter_main: num of the instruction last decoded
    operand,                \* the operand word the instruction last decoded read, 0 if it read none
    resize_failed,          \* which resizes of the instruction last decoded returned without resizing
    cmd_overwrite,          \* word of the loaded stream that an out-of-bounds store has replaced
    error_occurred,
    to_record,
    record_interval_steps,
    timestep_ticks,
    sdram_block,            \* the modelled words of the result region
    sdram_next_results,     \* as a word offset from sdram_block
    num_sources,
    num_sinks,
    sources,
    sinks,
    last_recorded,
    recorded_value_buffer,
    old_router_timeout,
    rtr_control,            \* rtr[RTR_CONTROL]
    counters,               \* router diagnostic counters 0..15, reinjector counters 16..18
    vic_enabled,            \* packet-received interrupt enabled in the VIC
    dma_queue,              \* transfers accepted by spin1_dma_transfer and not yet done
    time_left_steps,        \* run: time_left_steps
    next_timestep_ticks,    \* run: next_timestep_ticks
    record_elapsed_steps,   \* run: record_elapsed_steps
    deadline_missed,        \* run: deadline_missed
    time_ticks,             \* run: the value of timer 2 last read
    entry,                  \* history: the counters and the write cursor when run() was entered
    rand,                   \* run: what sark_rand() had to give each source in the last timestep
    answers,                \* run: what spin1_send_mc_packet answered each source in the last timestep
    failures,               \* history: the NT_ERR_* kinds of the failures that have happened
    leadAp,                 \* c_main: whether this core is the leader
    soft_wdog,              \* sv->soft_wdog
    resize,                 \* set_num_sinks: how far the call in progress has got, and its new array
    soft_wdog_at_boot,      \* history: sv->soft_wdog when c_main was entered
    timeout_before,         \* history: the timeout field as it was before the last ROUTER_TIMEOUT, if any
    handled                 \* history: the key of the packet last handled, and how many packets matched each sink

interpv == <<pc, commands_length, commands, command, num, operand, resize_failed, cmd_overwrite>>
machinev == <<num_sources, num_sinks, sources, sinks, last_recorded,
              recorded_value_buffer, error_occurred, sdram_next_results, dma_queue>>
configv == <<to_record, record_interval_steps, timestep_ticks>>
loopv == <<time_left_steps, next_timestep_ticks, record_elapsed_steps, deadline_missed,
           time_ticks, entry, rand, answers>>
hardwarev == <<old_router_timeout, rtr_control, counters, vic_enabled>>
systemv == <<leadAp, soft_wdog>>
irqv == <<resize, handled>>
historyv == <<timeout_before, soft_wdog_at_boot>>
vars == <<interpv, machinev, configv, loopv, hardwarev, systemv, irqv, historyv, sdram_block,
          failures>>

NoOverwrite == [at |-> -1, val |-> 0]

\* No call of set_num_sinks is in progress.
NoResize == [at |-> "idle", new_sinks |-> << >>, new_num_sinks |-> 0]

\* No packet has been handled.
NoneHandled == [key |-> 0, packets |-> 0, counted |-> [i \in 1..MaxSinks |-> 0], stray |-> FALSE]

\* The value of entry outside run().
NoEntry == [sources |-> << >>, sinks |-> << >>, counters |-> << >>, next_results |-> 0]

(***************************************************************************)
(* Source/sink registry.                                                   *)
(***************************************************************************)
\* A new source that would send in every timestep.
EagerSource ==
    [key |-> 0, burst_period_steps |-> 0, burst_duty_steps |-> 0,
     burst_phase_steps |-> 0, probability |-> Word(65535, 65535), payload |-> FALSE,
     sent_count |-> 0, blocked_count |-> 0]

DefaultSource ==
    [key |-> 0, burst_period_steps |-> 0, burst_duty_steps |-> 0,
     burst_phase_steps |-> 0, probability |-> 0, payload |-> FALSE,
     sent_count |-> 0, blocked_count |-> 0]

DefaultSink == [key |-> 0, arrived_count |-> 0]

\* A copy that stops one element short.
MemcpyShort(dst, src, n) == [i \in DOMAIN dst |-> IF i < n THEN src[i] ELSE dst[i]]

\* spin1_memcpy(dst, src, n * sizeof(element)): the first n elements of src over dst
Memcpy(dst, src, n) == [i \in DOMAIN dst |-> IF i <= n THEN src[i] ELSE dst[i]]

\* A word of a scratch buffer: one that has been stored, or one that has not
\* been written since sark_alloc returned its block.
Stored(value) == [written |-> TRUE, word |-> value]
Unwritten == [written |-> FALSE, word |-> 0]

\* A block of n words as sark_alloc returns it: not initialised.
Fresh(n) == [i \in 1..n |-> Unwritten]

\* The value itself in place of its change.
DeltaAbsolute(value, last) == Stored(value)

\* value - last, where last is read from a scratch buffer: what is computed from
\* a word never written is as indeterminate as that word.
Delta(value, last) == IF last.written THEN Stored(SubW(value, last.word)) ELSE Unwritten

\* Once the delta buffer is freed, a transfer still queued reads freed memory.
Orphan(queue) == [i \in DOMAIN queue |-> [queue[i] EXCEPT !.stale = TRUE]]

\* The part of the state that the registry and the recorder work on.
Machine ==
    [num_sources |-> num_sources, num_sinks |-> num_sinks,
     sources |-> sources, sinks |-> sinks,
     last_recorded |-> last_recorded,
     recorded_value_buffer |-> recorded_value_buffer,
     error_occurred |-> error_occurred,
     sdram_next_results |-> sdram_next_results,
     dma_queue |-> dma_queue]

Store(m) ==
    /\ num_sources' = m.num_sources
    /\ num_sinks' = m.num_sinks
    /\ sources' = m.sources
    /\ sinks' = m.sinks
    /\ last_recorded' = m.last_recorded
    /\ recorded_value_buffer' = m.recorded_value_buffer
    /\ error_occurred' = m.error_occurred
    /\ sdram_next_results' = m.sdram_next_results
    /\ dma_queue' = m.dma_queue

\* Whether a resize to n entries fails, alloc[i] telling whether the i-th
\* sark_alloc of the call returns memory.
AllocFails(n, alloc) == (~alloc[1] /\ n # 0) \/ ~alloc[2] \/ ~alloc[3]

\* A resize that takes the new length before it has its memory.
set_num_sources_early(m, new_num_sources, alloc) ==
    IF AllocFails(new_num_sources, alloc)
    THEN [m EXCEPT !.error_occurred = OrBit(@, NT_ERR_MALLOC),
                   !.num_sources = MIN(new_num_sources, @),
                   !.sources = SubSeq(@, 1, MIN(new_num_sources, m.num_sources))]
    ELSE [m EXCEPT
            !.sources = Memcpy([i \in 1..new_num_sources |-> DefaultSource],
                               m.sources, MIN(new_num_sources, m.num_sources)),
            !.num_sources = new_num_sources,
            !.last_recorded = Fresh(MAX_NUM_RESULTS(new_num_sources, m.num_sinks)),
            !.recorded_value_buffer = Fresh(MAX_NUM_RESULTS(new_num_sources, m.num_sinks)),
            !.dma_queue = Orphan(@)]

set_num_sources(m, new_num_sources, alloc) ==
    IF AllocFails(new_num_sources, alloc)
    THEN [m EXCEPT !.error_occurred = OrBit(@, NT_ERR_MALLOC)]
    ELSE [m EXCEPT
            !.sources = Memcpy([i \in 1..new_num_sources |-> DefaultSource],
                               m.sources, MIN(new_num_sources, m.num_sources)),
            !.num_sources = new_num_sources,
            !.last_recorded = Fresh(MAX_NUM_RESULTS(new_num_sources, m.num_sinks)),
            !.recorded_value_buffer = Fresh(MAX_NUM_RESULTS(new_num_sources, m.num_sinks)),
            !.dma_queue = Orphan(@)]

set_num_sinks(m, new_num_sinks, alloc) ==
    IF AllocFails(new_num_sinks, alloc)
    THEN [m EXCEPT !.error_occurred = OrBit(@, NT_ERR_MALLOC)]
    ELSE [m EXCEPT
            !.sinks = Memcpy([i \in 1..new_num_sinks |-> DefaultSink],
                             m.sinks, MIN(new_num_sinks, m.num_sinks)),
            !.num_sinks = new_num_sinks,
            !.last_recorded = Fresh(MAX_NUM_RESULTS(m.num_sources, new_num_sinks)),
            !.recorded_value_buffer = Fresh(MAX_NUM_RESULTS(m.num_sources, new_num_sinks)),
            !.dma_queue = Orphan(@)]

(***************************************************************************)
(* Recorder.                                                               *)
(***************************************************************************)
\* The hardware counters first..limit-1 whose bit of to_record is set, in order.
RECURSIVE SelectedCounters(_, _)
SelectedCounters(counter, limit) ==
    IF counter >= limit THEN << >>
    ELSE (IF HasBit(to_record, 2 ^ counter) THEN <<counters[counter]>> ELSE << >>)
         \o SelectedCounters(counter + 1, limit)

\* The values with the blocked counters ahead of the sent counters.
RecordedValuesSwapped(m) ==
    SelectedCounters(0, NUM_ROUTER_COUNTERS)
    \o SelectedCounters(NUM_ROUTER_COUNTERS, NUM_ROUTER_COUNTERS + NUM_REINJECTOR_COUNTERS)
    \o (IF HasBit(to_record, RECORD_BLOCKED_BIT)
        THEN [i \in 1..m.num_sources |-> m.sources[i].blocked_count] ELSE << >>)
    \o (IF HasBit(to_record, RECORD_SENT_BIT)
        THEN [i \in 1..m.num_sources |-> m.sources[i].sent_count] ELSE << >>)
    \o (IF HasBit(to_record, RECORD_RECEIVED_BIT)
        THEN [i \in 1..m.num_sinks |-> m.sinks[i].arrived_count] ELSE << >>)

\* The values one call of record() appends, in the order it appends them.
RecordedValues(m) ==
    SelectedCounters(0, NUM_ROUTER_COUNTERS)
    \o SelectedCounters(NUM_ROUTER_COUNTERS, NUM_ROUTER_COUNTERS + NUM_REINJECTOR_COUNTERS)
    \o (IF HasBit(to_record, RECORD_SENT_BIT)
        THEN [i \in 1..m.num_sources |-> m.sources[i].sent_count] ELSE << >>)
    \o (IF HasBit(to_record, RECORD_BLOCKED_BIT)
        THEN [i \in 1..m.num_sources |-> m.sources[i].blocked_count] ELSE << >>)
    \o (IF HasBit(to_record, RECORD_RECEIVED_BIT)
        THEN [i \in 1..m.num_sinks |-> m.sinks[i].arrived_count] ELSE << >>)

\* A baseline sample that is transferred like the others.
TransfersAlways(m, first) == Len(RecordedValues(m)) > 0

\* Whether this call of record() hands its deltas to spin1_dma_transfer.
Transfers(m, first) == ~first /\ Len(RecordedValues(m)) > 0

\* Whether spin1_dma_transfer takes the transfer: dma_ok is its answer while the
\* queue has room.
DmaAccepted(m, dma_ok) == dma_ok /\ Len(m.dma_queue) < DmaQueueSize

\* A transfer aimed one word low.
DmaDestinationLow(m) == m.sdram_next_results - 1

\* The word offset of the result region the transfer is aimed at.
DmaDestination(m) == m.sdram_next_results

\* A recorder that keeps its cursor when the transfer is refused.
record_stalled(m, first, dma_ok) ==
    LET values == RecordedValues(m)
        num_results == Len(values)
        sampled ==
            [m EXCEPT
               !.recorded_value_buffer =
                   [i \in DOMAIN @ |->
                      IF i <= num_results THEN Delta(values[i], m.last_recorded[i]) ELSE @[i]],
               !.last_recorded =
                   [i \in DOMAIN @ |-> IF i <= num_results THEN Stored(values[i]) ELSE @[i]]]
    IN  IF ~Transfers(m, first) THEN sampled
        ELSE IF DmaAccepted(m, dma_ok)
        THEN [sampled EXCEPT
                !.dma_queue =
                    Append(@, [dst |-> DmaDestination(m), len |-> num_results, stale |-> FALSE]),
                !.sdram_next_results = @ + num_results]
        ELSE [sampled EXCEPT !.error_occurred = OrBit(@, NT_ERR_DMA)]

record(m, first, dma_ok) ==
    LET values == RecordedValues(m)
        num_results == Len(values)
        sampled ==
            [m EXCEPT
               !.recorded_value_buffer =
                   [i \in DOMAIN @ |->
                      IF i <= num_results THEN Delta(values[i], m.last_recorded[i]) ELSE @[i]],
               !.last_recorded =
                   [i \in DOMAIN @ |-> IF i <= num_results THEN Stored(values[i]) ELSE @[i]]]
    IN  IF ~Transfers(m, first) THEN sampled
        ELSE [sampled EXCEPT
                !.dma_queue =
                    IF DmaAccepted(m, dma_ok)
                    THEN Append(@, [dst |-> DmaDestination(m), len |-> num_results, stale |-> FALSE])
                    ELSE @,
                !.error_occurred =
                    IF DmaAccepted(m, dma_ok) THEN @ ELSE OrBit(@, NT_ERR_DMA),
                !.sdram_next_results = @ + num_results]

\* The DMA controller finishes the oldest transfer: it copies what the delta
\* buffer holds now, or what the freed memory holds.
DmaDone ==
    /\ dma_queue # << >>
    /\ \E junk \in JunkWords :
         LET t == Head(dma_queue)
             word(i) == IF t.stale \/ i > Len(recorded_value_buffer)
                           \/ ~recorded_value_buffer[i].written
                        THEN junk ELSE recorded_value_buffer[i].word
         IN  sdram_block' =
                 [a \in DOMAIN sdram_block |->
                    IF a >= t.dst /\ a < t.dst + t.len
                    THEN word(a - t.dst + 1) ELSE sdram_block[a]]
    /\ dma_queue' = Tail(dma_queue)
    /\ UNCHANGED <<interpv, configv, loopv, hardwarev, systemv, historyv, irqv, failures, num_sources,
                   num_sinks, sources, sinks, last_recorded, recorded_value_buffer,
                   error_occurred, sdram_next_results>>

(***************************************************************************)
(* Packet arrival callback.                                                *)
(***************************************************************************)
\* A handler that compares the whole key of the packet.
on_mc_packet_unmasked(key) ==
    [i \in DOMAIN sinks |->
       IF i <= num_sinks /\ sinks[i].key = key
       THEN [sinks[i] EXCEPT !.arrived_count = AddW(@, 1)]
       ELSE sinks[i]]

on_mc_packet(key) ==
    LET masked == key - (key % 256)
    IN  [i \in DOMAIN sinks |->
           IF i <= num_sinks /\ sinks[i].key = masked
           THEN [sinks[i] EXCEPT !.arrived_count = AddW(@, 1)]
           ELSE sinks[i]]

\* The interrupt of a packet with this key, with or without a payload.
Arrival(key) ==
    /\ pc # "exit"
    /\ vic_enabled
    /\ \A i \in DOMAIN sinks : sinks[i].arrived_count < MaxArrivals
    /\ sinks' = on_mc_packet(key)
    /\ UNCHANGED <<interpv, configv, loopv, hardwarev, systemv, historyv, resize, sdram_block, failures,
                   num_sources, num_sinks, sources, last_recorded,
                   recorded_value_buffer, error_occurred, sdram_next_results, dma_queue>>

PacketArrives ==
    \E key \in PacketKeys :
        /\ Arrival(key)
        /\ handled' = handled

(***************************************************************************)
(* Traffic generation.                                                     *)
(***************************************************************************)
\* The decision with the comparison made on signed words.
GenerateSigned(p, r) == (p = AllOnes) \/ r < p

\* The generate decision of a source with probability p for the draw r.
Generate(p, r) == (p = AllOnes) \/ ULess(r, p)

\* A burst that stays active one step longer.
BurstInclusive(s) ==
    IF s.burst_period_steps # 0
    THEN ~ULess(s.burst_duty_steps, s.burst_phase_steps)
    ELSE TRUE

\* Whether the source is in the active part of its burst.
Burst(s) ==
    IF s.burst_period_steps # 0
    THEN ULess(s.burst_phase_steps, s.burst_duty_steps)
    ELSE TRUE

\* A timestep in which a refused packet is counted and sent again.
StepSourceRetry(s, r, sent) ==
    LET phased ==
            IF s.burst_period_steps # 0
            THEN [s EXCEPT !.burst_phase_steps =
                     IF ~ULess(AddW(@, 1), s.burst_period_steps) THEN 0 ELSE AddW(@, 1)]
            ELSE s
    IN  IF Burst(s) /\ Generate(s.probability, r)
        THEN IF sent
             THEN [phased EXCEPT !.sent_count = AddW(@, 1)]
             ELSE [phased EXCEPT !.blocked_count = AddW(@, 1), !.sent_count = AddW(@, 1)]
        ELSE phased

\* One timestep of one source: r is the draw, sent the answer of
\* spin1_send_mc_packet.
StepSource(s, r, sent) ==
    LET phased ==
            IF s.burst_period_steps # 0
            THEN [s EXCEPT !.burst_phase_steps =
                     IF ~ULess(AddW(@, 1), s.burst_period_steps) THEN 0 ELSE AddW(@, 1)]
            ELSE s
    IN  IF Burst(s) /\ Generate(s.probability, r)
        THEN IF sent
             THEN [phased EXCEPT !.sent_count = AddW(@, 1)]
             ELSE [phased EXCEPT !.blocked_count = AddW(@, 1)]
        ELSE phased

\* What spin1_send_mc_packet answers a source in a timestep: nothing when the
\* source does not call it.
Answer(s, r, sent) ==
    IF Burst(s) /\ Generate(s.probability, r)
    THEN (IF sent THEN "accepted" ELSE "rejected")
    ELSE "not called"

\* Whether the int32_t subtraction a - b overflows.
Overflows(a, b) ==
    \/ a >= 0 /\ b < 0 /\ SubW(a, b) < 0
    \/ a < 0 /\ b >= 0 /\ SubW(a, b) >= 0

\* Whether the timestep has not yet elapsed when timer 2 shows read_ticks, by
\* the difference modulo 2^32.
Early(read_ticks, next_ticks) == SubW(read_ticks, next_ticks) > 0

\* Whether the deadline after next is already due when timer 2 shows time_ticks.
Late(read_ticks, next_ticks) == SubW(read_ticks, next_ticks) <= 0

\* What time_ticks - next_timestep_ticks > 0 and time_ticks - next_timestep_ticks
\* <= 0 can evaluate to: the subtraction is of two int32_t, so when it overflows
\* the test is true in one build (the difference wraps) and false in another
\* (the test is compiled as a comparison of the two operands).
EarlyOutcomes(read_ticks, next_ticks) ==
    IF Overflows(read_ticks, next_ticks) THEN BOOLEAN ELSE {Early(read_ticks, next_ticks)}
LateOutcomes(read_ticks, next_ticks) ==
    IF Overflows(read_ticks, next_ticks) THEN BOOLEAN ELSE {Late(read_ticks, next_ticks)}

\* Whether the timestep that brings the elapsed steps to elapsed + 1 ends with
\* a sample.
Due(elapsed) ==
    record_interval_steps > 0 /\ ~ULess(AddW(elapsed, 1), record_interval_steps)

\* A final sample after every run.
FinalAlways == TRUE

\* Whether run() takes a sample after its loop.
Final == record_interval_steps = 0

\* An entry of run() that takes no baseline sample.
RunEnterUnsampled(ticks, timer) ==
    /\ pc' = "run"
    /\ deadline_missed' = FALSE
    /\ next_timestep_ticks' = timer
    /\ record_elapsed_steps' = 0
    /\ time_left_steps' = ticks
    /\ time_ticks' = timer
    /\ entry' = [sources |-> sources, sinks |-> sinks,
                 counters |-> [i \in 1..(NUM_ROUTER_COUNTERS + NUM_REINJECTOR_COUNTERS) |->
                                 counters[i - 1]],
                 next_results |-> sdram_next_results]
    /\ rand' = << >>
    /\ answers' = << >>
    /\ Store(Machine)

\* run(): from its entry to the first test of the loop condition.
RunEnter(ticks, timer) ==
    /\ pc' = "run"
    /\ deadline_missed' = FALSE
    /\ next_timestep_ticks' = timer
    /\ record_elapsed_steps' = 0
    /\ time_left_steps' = ticks
    /\ time_ticks' = timer
    /\ entry' = [sources |-> sources, sinks |-> sinks,
                 counters |-> [i \in 1..(NUM_ROUTER_COUNTERS + NUM_REINJECTOR_COUNTERS) |->
                                 counters[i - 1]],
                 next_results |-> sdram_next_results]
    /\ rand' = << >>
    /\ answers' = << >>
    /\ Store(record(Machine, TRUE, FALSE))

\* run(): one pass of the loop body in which a timestep has elapsed.
RunTickWith(Rands, Late_by, Accepted) ==
    /\ pc = "run"
    /\ time_left_steps # 0
    /\ \E lag \in Late_by :
         LET read_ticks == SubW(next_timestep_ticks, lag)
             next_ticks == SubW(next_timestep_ticks, timestep_ticks)
             counting == record_interval_steps > 0
             due == Due(record_elapsed_steps)
         IN  /\ FALSE \in EarlyOutcomes(read_ticks, next_timestep_ticks)
             /\ time_ticks' = read_ticks
             /\ entry' = entry
             /\ next_timestep_ticks' = next_ticks
             /\ time_left_steps' = time_left_steps - 1
             /\ record_elapsed_steps' =
                    IF ~counting THEN record_elapsed_steps
                    ELSE IF due THEN 0 ELSE AddW(record_elapsed_steps, 1)
             /\ \E late \in LateOutcomes(read_ticks, next_ticks) :
                    deadline_missed' = (deadline_missed \/ late)
             /\ \E dma_ok \in DmaAnswers(record_interval_steps > 0 /\ to_record # 0),
                   draws \in [1..num_sources -> Rands],
                   accepts \in [1..num_sources -> Accepted] :
                    LET stepped == [Machine EXCEPT !.sources =
                                       [i \in 1..num_sources |->
                                          StepSource(sources[i], draws[i], accepts[i])]]
                    IN  /\ rand' = draws
                        /\ answers' = [i \in 1..num_sources |->
                                          Answer(sources[i], draws[i], accepts[i])]
                        /\ Store(IF due THEN record(stepped, FALSE, dma_ok) ELSE stepped)
                        /\ failures' =
                               IF due /\ Transfers(stepped, FALSE)
                                  /\ ~DmaAccepted(stepped, dma_ok)
                               THEN failures \cup {NT_ERR_DMA} ELSE failures
    /\ UNCHANGED <<interpv, configv, hardwarev, systemv, historyv, irqv, sdram_block>>

RunTick == RunTickWith(RandWords, Lags, BOOLEAN)

\* run(): from the end of the loop to the return, and the RUN command's use of
\* the result.
RunReturn ==
    /\ pc = "run"
    /\ time_left_steps = 0
    /\ \E dma_ok \in DmaAnswers(record_interval_steps = 0 /\ to_record # 0) :
         LET final == Final
             m == IF final THEN record(Machine, FALSE, dma_ok) ELSE Machine
         IN  /\ Store([m EXCEPT !.error_occurred =
                          IF deadline_missed THEN OrBit(@, NT_ERR_DEADLINE_MISSED) ELSE @])
             /\ failures' =
                    failures
                    \cup (IF final /\ Transfers(Machine, FALSE) /\ ~DmaAccepted(Machine, dma_ok)
                          THEN {NT_ERR_DMA} ELSE {})
                    \cup (IF deadline_missed THEN {NT_ERR_DEADLINE_MISSED} ELSE {})
    /\ pc' = "decode"
    /\ deadline_missed' = FALSE
    /\ next_timestep_ticks' = 0
    /\ record_elapsed_steps' = 0
    /\ time_left_steps' = 0
    /\ time_ticks' = 0
    /\ entry' = NoEntry
    /\ rand' = << >>
    /\ answers' = << >>
    /\ UNCHANGED <<commands_length, commands, command, num, operand, resize_failed,
                   cmd_overwrite, configv, hardwarev, systemv, historyv, irqv, sdram_block>>

(***************************************************************************)
(* Command interpreter.                                                    *)
(***************************************************************************)
\* The case labels of the switch of interpreter_main.
HandledCommands ==
    {NT_CMD_EXIT, NT_CMD_SLEEP, NT_CMD_BARRIER, NT_CMD_SEED, NT_CMD_TIMESTEP,
     NT_CMD_RUN, NT_CMD_NUM, NT_CMD_ROUTER_TIMEOUT,
     NT_CMD_ROUTER_TIMEOUT_RESTORE, NT_CMD_REINJECTION_ENABLE,
     NT_CMD_REINJECTION_DISABLE, NT_CMD_RECORD, NT_CMD_RECORD_INTERVAL,
     NT_CMD_PROBABILITY, NT_CMD_BURST_PERIOD, NT_CMD_BURST_DUTY,
     NT_CMD_BURST_PHASE, NT_CMD_SOURCE_KEY, NT_CMD_PAYLOAD, NT_CMD_NO_PAYLOAD,
     NT_CMD_CONSUME, NT_CMD_NO_CONSUME, NT_CMD_SINK_KEY}

\* What *commands may hold: a word the host wrote, unless a store has replaced it.
Fetchable == IF cmd_overwrite.at = commands THEN {cmd_overwrite.val} ELSE InstrWords

CommandOf(word) == word % 256
NumOf(word) == (word \div 256) % 256

\* The number of words of the instruction with command c.
WordsOf(c) ==
    IF c \in {NT_CMD_SLEEP, NT_CMD_SEED, NT_CMD_TIMESTEP, NT_CMD_RUN, NT_CMD_NUM,
              NT_CMD_ROUTER_TIMEOUT, NT_CMD_RECORD, NT_CMD_RECORD_INTERVAL,
              NT_CMD_PROBABILITY, NT_CMD_BURST_PERIOD, NT_CMD_BURST_DUTY,
              NT_CMD_BURST_PHASE, NT_CMD_SOURCE_KEY, NT_CMD_SINK_KEY}
    THEN 2 ELSE 1

\* The head of the loop: command and num are extracted from the fetched word
\* and the cursor moves past it. The instruction lies within the loaded stream.
Decode(word, value) ==
    /\ pc = "decode"
    /\ commands + WordsOf(CommandOf(word)) <= commands_length
    /\ command' = CommandOf(word)
    /\ num' = NumOf(word)
    /\ operand' = value

\* The words that may be fetched and select the case of command c.
Selecting(c) == {word \in Fetchable : CommandOf(word) = c}

\* The cursor after an instruction of the given number of words.
Advance(words) ==
    /\ commands' = commands + words
    /\ cmd_overwrite' = NoOverwrite
    /\ commands_length' = commands_length
    /\ resize_failed' = {}

\* NT_CMD_EXIT: the error word goes to word 0 and the application stops.
Exit(errors) ==
    /\ error_occurred' = errors
    /\ sdram_block' = [sdram_block EXCEPT ![0] = errors]
    /\ pc' = "exit"

\* A default case that flags nothing.
UnrecognisedUnflagged(errors) == errors

\* The default case: the error word with the unknown-command bit.
Unrecognised(errors) == OrBit(errors, NT_ERR_UNKNOWN_COMMAND)

CmdExit ==
    /\ \E word \in Selecting(NT_CMD_EXIT) :
         /\ Decode(word, 0)
    /\ Advance(1)
    /\ Exit(error_occurred)
    /\ UNCHANGED <<configv, loopv, hardwarev, systemv, historyv, irqv, failures, num_sources, num_sinks,
                   sources, sinks, last_recorded, recorded_value_buffer,
                   sdram_next_results, dma_queue>>

CmdDefault ==
    /\ \E word \in {x \in Fetchable : CommandOf(x) \notin HandledCommands} :
         Decode(word, 0)
    /\ Advance(1)
    /\ Exit(Unrecognised(error_occurred))
    /\ failures' = failures \cup {NT_ERR_UNKNOWN_COMMAND}
    /\ UNCHANGED <<configv, loopv, hardwarev, systemv, historyv, irqv, num_sources, num_sinks,
                   sources, sinks, last_recorded, recorded_value_buffer,
                   sdram_next_results, dma_queue>>

\* An instruction that changes nothing of the modelled state but the cursor.
Skip(c, value, words) ==
    /\ \E word \in Selecting(c) :
         /\ Decode(word, value)
    /\ Advance(words)
    /\ pc' = pc
    /\ UNCHANGED <<machinev, configv, loopv, hardwarev, systemv, historyv, irqv, sdram_block, failures>>

CmdSleep == \E us \in SleepWords : Skip(NT_CMD_SLEEP, us, 2)

CmdBarrier == Skip(NT_CMD_BARRIER, 0, 1)

CmdSeed == \E seed \in SeedWords : Skip(NT_CMD_SEED, seed, 2)

CmdTimestep ==
    /\ \E word \in Selecting(NT_CMD_TIMESTEP), ns \in TimestepWords :
         /\ Decode(word, ns)
         /\ timestep_ticks' = NS_TO_TICKS(ns)
    /\ Advance(2)
    /\ pc' = pc
    /\ UNCHANGED <<machinev, loopv, hardwarev, systemv, historyv, irqv, sdram_block, failures,
                   to_record, record_interval_steps>>

CmdRunWith(Ticks, Timers) ==
    /\ \E word \in Selecting(NT_CMD_RUN), ticks \in Ticks, timer \in Timers :
         /\ Decode(word, ticks)
         /\ RunEnter(ticks, timer)
    /\ Advance(2)
    /\ UNCHANGED <<configv, hardwarev, systemv, historyv, irqv, sdram_block, failures>>

CmdRun == CmdRunWith(RunWords, TimerWords)

CmdNum ==
    /\ \E word \in Selecting(NT_CMD_NUM), counts \in NumWords,
          alloc_sources \in AllocAnswers, alloc_sinks \in AllocAnswers :
         LET new_num_sources == counts % 256
             new_num_sinks == (counts \div 256) % 256
             resized == set_num_sources(Machine, new_num_sources, alloc_sources)
         IN  /\ Decode(word, counts)
             /\ Store(set_num_sinks(resized, new_num_sinks, alloc_sinks))
             /\ resize_failed' =
                    (IF AllocFails(new_num_sources, alloc_sources) THEN {"sources"} ELSE {})
                    \cup (IF AllocFails(new_num_sinks, alloc_sinks) THEN {"sinks"} ELSE {})
             /\ failures' =
                    IF AllocFails(new_num_sources, alloc_sources)
                       \/ AllocFails(new_num_sinks, alloc_sinks)
                    THEN failures \cup {NT_ERR_MALLOC} ELSE failures
    /\ commands' = commands + 2
    /\ cmd_overwrite' = NoOverwrite
    /\ commands_length' = commands_length
    /\ pc' = pc
    /\ UNCHANGED <<configv, loopv, hardwarev, systemv, historyv, irqv, sdram_block>>

CmdRouterTimeout ==
    /\ \E word \in Selecting(NT_CMD_ROUTER_TIMEOUT), timeout \in TimeoutWords :
         /\ Decode(word, timeout)
         /\ old_router_timeout' = rtr_control
         /\ rtr_control' = WithTimeout(rtr_control, timeout)
    /\ timeout_before' = {Hi(rtr_control)}
    /\ soft_wdog_at_boot' = soft_wdog_at_boot
    /\ Advance(2)
    /\ pc' = pc
    /\ UNCHANGED <<machinev, configv, loopv, sdram_block, failures, counters, vic_enabled,
                   systemv, irqv>>

\* An instruction of one word that only writes the router control register.
SetControl(c, value) ==
    /\ \E word \in Selecting(c) :
         Decode(word, 0)
    /\ rtr_control' = value
    /\ Advance(1)
    /\ pc' = pc
    /\ UNCHANGED <<machinev, configv, loopv, sdram_block, failures,
                   old_router_timeout, counters, vic_enabled, systemv, historyv, irqv>>

CmdRouterTimeoutRestore ==
    SetControl(NT_CMD_ROUTER_TIMEOUT_RESTORE, WithTimeout(rtr_control, old_router_timeout))

CmdReinjectionEnable ==
    SetControl(NT_CMD_REINJECTION_ENABLE, OrBit(rtr_control, RTR_DENABLE_MASK))

CmdReinjectionDisable ==
    SetControl(NT_CMD_REINJECTION_DISABLE, ClearBit(rtr_control, RTR_DENABLE_MASK))

CmdRecordWith(Masks) ==
    /\ \E word \in Selecting(NT_CMD_RECORD), mask \in Masks :
         /\ Decode(word, mask)
         /\ to_record' = mask
    /\ Advance(2)
    /\ pc' = pc
    /\ UNCHANGED <<machinev, loopv, hardwarev, systemv, historyv, irqv, sdram_block, failures,
                   record_interval_steps, timestep_ticks>>

CmdRecord == CmdRecordWith(RecordWords)

CmdRecordInterval ==
    /\ \E word \in Selecting(NT_CMD_RECORD_INTERVAL), steps \in IntervalWords :
         /\ Decode(word, steps)
         /\ record_interval_steps' = steps
    /\ Advance(2)
    /\ pc' = pc
    /\ UNCHANGED <<machinev, loopv, hardwarev, systemv, historyv, irqv, sdram_block, failures,
                   to_record, timestep_ticks>>

\* A setter that stores in the field of every source.
CheckedSourceSetterAll(c, field, value, words) ==
    /\ \E word \in Selecting(c) :
         /\ Decode(word, IF words = 2 THEN value ELSE 0)
         /\ IF NumOf(word) < num_sources
            THEN /\ sources' = [i \in DOMAIN sources |-> [sources[i] EXCEPT ![field] = value]]
                 /\ error_occurred' = error_occurred
                 /\ failures' = failures
            ELSE /\ sources' = sources
                 /\ error_occurred' = OrBit(error_occurred, NT_ERR_BAD_ARGUMENTS)
                 /\ failures' = failures \cup {NT_ERR_BAD_ARGUMENTS}
    /\ Advance(words)
    /\ pc' = pc
    /\ UNCHANGED <<configv, loopv, hardwarev, systemv, historyv, irqv, sdram_block, num_sources, num_sinks,
                   sinks, last_recorded, recorded_value_buffer, sdram_next_results,
                   dma_queue>>

\* A setter whose case tests num < num_sources before it stores: value is
\* stored in the field of sources[num], or NT_ERR_BAD_ARGUMENTS is set.
CheckedSourceSetter(c, field, value, words) ==
    /\ \E word \in Selecting(c) :
         /\ Decode(word, IF words = 2 THEN value ELSE 0)
         /\ IF NumOf(word) < num_sources
            THEN /\ sources' = [sources EXCEPT ![NumOf(word) + 1][field] = value]
                 /\ error_occurred' = error_occurred
                 /\ failures' = failures
            ELSE /\ sources' = sources
                 /\ error_occurred' = OrBit(error_occurred, NT_ERR_BAD_ARGUMENTS)
                 /\ failures' = failures \cup {NT_ERR_BAD_ARGUMENTS}
    /\ Advance(words)
    /\ pc' = pc
    /\ UNCHANGED <<configv, loopv, hardwarev, systemv, historyv, irqv, sdram_block, num_sources, num_sinks,
                   sinks, last_recorded, recorded_value_buffer, sdram_next_results,
                   dma_queue>>

\* Where the store sources[num].field = value lands when num >= num_sources:
\* past the end of the array, in memory that holds nothing live, in a field of
\* a sink, or in a word of the loaded command stream not yet decoded.
StrayStore(value) ==
    \/ /\ sinks' = sinks
       /\ cmd_overwrite' = NoOverwrite
    \/ /\ \E i \in DOMAIN sinks, f \in {"key", "arrived_count"} :
            sinks' = [sinks EXCEPT ![i][f] = value]
       /\ cmd_overwrite' = NoOverwrite
    \/ /\ commands + 2 < commands_length
       /\ sinks' = sinks
       /\ cmd_overwrite' = [at |-> commands + 2, val |-> value]

\* A setter whose case stores without testing num.
UncheckedSourceSetter(c, field) ==
    /\ \E word \in Selecting(c), value \in BurstWords :
         /\ Decode(word, value)
         /\ IF NumOf(word) < num_sources
            THEN /\ sources' = [sources EXCEPT ![NumOf(word) + 1][field] = value]
                 /\ sinks' = sinks
                 /\ cmd_overwrite' = NoOverwrite
                 /\ failures' = failures
            ELSE /\ sources' = sources
                 /\ StrayStore(value)
                 /\ failures' = failures \cup {NT_ERR_BAD_ARGUMENTS}
    /\ commands' = commands + 2
    /\ resize_failed' = {}
    /\ pc' = pc
    /\ UNCHANGED <<commands_length, configv, loopv, hardwarev, systemv, historyv, irqv, sdram_block, num_sources, num_sinks,
                   last_recorded, recorded_value_buffer, error_occurred,
                   sdram_next_results, dma_queue>>

CmdProbability ==
    \E probability \in ProbabilityWords :
        CheckedSourceSetter(NT_CMD_PROBABILITY, "probability", probability, 2)

CmdBurstPeriod == UncheckedSourceSetter(NT_CMD_BURST_PERIOD, "burst_period_steps")

CmdBurstDuty == UncheckedSourceSetter(NT_CMD_BURST_DUTY, "burst_duty_steps")

CmdBurstPhase == UncheckedSourceSetter(NT_CMD_BURST_PHASE, "burst_phase_steps")

CmdSourceKey ==
    \E key \in KeyWords :
        CheckedSourceSetter(NT_CMD_SOURCE_KEY, "key", key, 2)

CmdPayload == CheckedSourceSetter(NT_CMD_PAYLOAD, "payload", TRUE, 1)

CmdNoPayload == CheckedSourceSetter(NT_CMD_NO_PAYLOAD, "payload", FALSE, 1)

\* The interrupt on packet arrival is switched in the VIC.
SetConsume(c, enabled) ==
    /\ \E word \in Selecting(c) :
         Decode(word, 0)
    /\ vic_enabled' = enabled
    /\ Advance(1)
    /\ pc' = pc
    /\ UNCHANGED <<machinev, configv, loopv, sdram_block, failures,
                   old_router_timeout, rtr_control, counters, systemv, historyv, irqv>>

CmdConsume == SetConsume(NT_CMD_CONSUME, TRUE)

CmdNoConsume == SetConsume(NT_CMD_NO_CONSUME, FALSE)

CmdSinkKey ==
    /\ \E word \in Selecting(NT_CMD_SINK_KEY), key \in KeyWords :
         /\ Decode(word, key)
         /\ IF NumOf(word) < num_sinks
            THEN /\ sinks' = [sinks EXCEPT ![NumOf(word) + 1].key = key]
                 /\ error_occurred' = error_occurred
                 /\ failures' = failures
            ELSE /\ sinks' = sinks
                 /\ error_occurred' = OrBit(error_occurred, NT_ERR_BAD_ARGUMENTS)
                 /\ failures' = failures \cup {NT_ERR_BAD_ARGUMENTS}
    /\ Advance(2)
    /\ pc' = pc
    /\ UNCHANGED <<configv, loopv, hardwarev, systemv, historyv, irqv, sdram_block, num_sources, num_sinks,
                   sources, last_recorded, recorded_value_buffer, sdram_next_results,
                   dma_queue>>

(***************************************************************************)
(* The program: the state c_main leaves when it starts the interpreter,    *)
(* and the steps of the interpreter, the run loop, the packet callback     *)
(* and the DMA controller.                                                 *)
(***************************************************************************)
\* The buffer of n words of which record() has written the first.
Sampled(n) == [Fresh(n) EXCEPT ![1] = Stored(0)]

\* The state in which the interpreter decodes the first of length command
\* words, as earlier commands have left it: the registry, the RECORD mask and
\* interval, the hardware counters, the scratch buffers and the write cursor.
Loaded(length, configured_sources, configured_sinks, mask, interval, hw, last, deltas, cursor) ==
    /\ commands_length = length
    /\ commands = 0
    /\ command = 0
    /\ num = 0
    /\ operand = 0
    /\ resize_failed = {}
    /\ cmd_overwrite = NoOverwrite
    /\ error_occurred = 0
    /\ to_record = mask
    /\ record_interval_steps = interval
    /\ timestep_ticks = US_TO_TICKS(100)
    /\ sdram_block = [a \in 0..(SdramWords - 1) |-> IF a = 0 THEN NT_ERR_STILL_RUNNING ELSE 0]
    /\ sdram_next_results = cursor
    /\ num_sources = Len(configured_sources)
    /\ num_sinks = Len(configured_sinks)
    /\ sources = configured_sources
    /\ sinks = configured_sinks
    /\ last_recorded = last
    /\ recorded_value_buffer = deltas
    /\ old_router_timeout = 0
    /\ rtr_control \in ControlWords
    /\ counters = hw
    /\ vic_enabled = TRUE
    /\ dma_queue = << >>
    /\ time_left_steps = 0
    /\ next_timestep_ticks = 0
    /\ record_elapsed_steps = 0
    /\ deadline_missed = FALSE
    /\ time_ticks = 0
    /\ entry = NoEntry
    /\ rand = << >>
    /\ answers = << >>
    /\ failures = {}
    /\ resize = NoResize
    /\ handled = NoneHandled
    /\ timeout_before = {}

\* The interpreter is about to decode, on the leader core, whose watchdog was
\* off when c_main was entered.
Configured(length, configured_sources, configured_sinks, mask, interval, hw, last, deltas, cursor) ==
    /\ pc = "decode"
    /\ leadAp = TRUE
    /\ soft_wdog = 0
    /\ soft_wdog_at_boot = 0
    /\ Loaded(length, configured_sources, configured_sinks, mask, interval, hw, last, deltas, cursor)

\* With an empty registry and nothing recorded it is the state c_main
\* leaves.  Otherwise earlier commands have configured the registry, and if
\* sampled have selected router counter 0 and recorded one sample of it.
Start(length, configured_sources, configured_sinks, sampled) ==
    LET n == MAX_NUM_RESULTS(Len(configured_sources), Len(configured_sinks))
    IN  Configured(length, configured_sources, configured_sinks,
                   IF sampled THEN 1 ELSE 0, 0,
                   [i \in 0..(NUM_ROUTER_COUNTERS + NUM_REINJECTOR_COUNTERS - 1) |-> 0],
                   IF sampled THEN Sampled(n) ELSE Fresh(n),
                   IF sampled THEN Sampled(n) ELSE Fresh(n),
                   IF sampled THEN 2 ELSE 1)

Init == Start(MaxCommandWords, << >>, << >>, FALSE)

Next ==
    \/ CmdExit
    \/ CmdDefault
    \/ CmdSleep
    \/ CmdBarrier
    \/ CmdSeed
    \/ CmdTimestep
    \/ CmdRun
    \/ CmdNum
    \/ CmdRouterTimeout
    \/ CmdRouterTimeoutRestore
    \/ CmdReinjectionEnable
    \/ CmdReinjectionDisable
    \/ CmdRecord
    \/ CmdRecordInterval
    \/ CmdProbability
    \/ CmdBurstPeriod
    \/ CmdBurstDuty
    \/ CmdBurstPhase
    \/ CmdSourceKey
    \/ CmdPayload
    \/ CmdNoPayload
    \/ CmdConsume
    \/ CmdNoConsume
    \/ CmdSinkKey
    \/ RunTick
    \/ RunReturn
    \/ PacketArrives
    \/ DmaDone

Spec == Init /\ [][Next]_vars

(***************************************************************************)
(* c_main from the point where the interpreter is scheduled: pc is "boot"  *)
(* before spin1_start and "done" after it has returned.                    *)
(***************************************************************************)
\* Values of sv->soft_wdog when c_main is entered.
WatchdogWords == {0, 3}

\* What a uchar that was never assigned may hold.
JunkBytes == {0, 3, 255}

InitWatchdog ==
    /\ pc = "boot"
    /\ leadAp \in BOOLEAN
    /\ soft_wdog \in WatchdogWords
    /\ soft_wdog_at_boot = soft_wdog
    /\ Loaded(WordsOf(NT_CMD_SLEEP) + WordsOf(NT_CMD_EXIT), << >>, << >>, 0, 0,
              [i \in 0..(NUM_ROUTER_COUNTERS + NUM_REINJECTOR_COUNTERS - 1) |-> 0],
              Fresh(MAX_NUM_RESULTS(0, 0)), Fresh(MAX_NUM_RESULTS(0, 0)), 1)

\* A step of c_main around spin1_start that writes sv->soft_wdog on the
\* leader core.
WatchdogStep(from, to, values) ==
    /\ pc = from
    /\ pc' = to
    /\ IF leadAp THEN soft_wdog' \in values ELSE soft_wdog' = soft_wdog
    /\ UNCHANGED <<commands_length, commands, command, num, operand, resize_failed,
                   cmd_overwrite, machinev, configv, loopv, hardwarev, leadAp, irqv, historyv,
                   sdram_block, failures>>

\* The block that saves sv->soft_wdog in its own old_soft_wdog and clears it.
WatchdogDisable == WatchdogStep("boot", "decode", {0})

\* After spin1_start: sv->soft_wdog = old_soft_wdog, where old_soft_wdog is the
\* variable of c_main, which the block above does not assign.
WatchdogRestore == WatchdogStep("exit", "done", JunkBytes)

NextWatchdog ==
    \/ WatchdogDisable
    \/ CmdSleep
    \/ CmdBarrier
    \/ CmdSeed
    \/ CmdExit
    \/ CmdDefault
    \/ WatchdogRestore

SpecWatchdog == InitWatchdog /\ [][NextWatchdog]_vars

(***************************************************************************)
(* The interpreter on a stream of known opcodes whose last word is EXIT:   *)
(* an instruction other than EXIT ends before the last word.  The loop of  *)
(* interpreter_main and the loop of run() keep executing.  pc is "past"    *)
(* once the interpreter has left the stream without executing EXIT: what   *)
(* it decodes from there on is not the stream.                             *)
(***************************************************************************)
\* The step A on a stream that ends in EXIT.
OnStream(A) == A /\ (pc' = "exit" \/ commands' < commands_length)

\* A word that a store has replaced is decoded as SLEEP, BARRIER or SEED and
\* the instruction takes the last word of the stream, the EXIT, as its operand,
\* or lies behind it.
RunsOff ==
    /\ pc = "decode"
    /\ cmd_overwrite.at = commands
    /\ \E word \in Fetchable, value \in JunkWords :
         /\ CommandOf(word) \in {NT_CMD_SLEEP, NT_CMD_BARRIER, NT_CMD_SEED}
         /\ commands + WordsOf(CommandOf(word)) >= commands_length
         /\ command' = CommandOf(word)
         /\ num' = NumOf(word)
         /\ operand' = (IF commands + 2 = commands_length THEN NT_CMD_EXIT ELSE value)
         /\ Advance(WordsOf(CommandOf(word)))
    /\ pc' = "past"
    /\ UNCHANGED <<machinev, configv, loopv, hardwarev, systemv, irqv, historyv, sdram_block,
                   failures>>

NextStream ==
    \/ RunsOff
    \/ OnStream(CmdExit)
    \/ OnStream(CmdSleep)
    \/ OnStream(CmdBarrier)
    \/ OnStream(CmdSeed)
    \/ OnStream(CmdTimestep)
    \/ OnStream(CmdRun)
    \/ OnStream(CmdNum)
    \/ OnStream(CmdRouterTimeout)
    \/ OnStream(CmdRouterTimeoutRestore)
    \/ OnStream(CmdReinjectionEnable)
    \/ OnStream(CmdReinjectionDisable)
    \/ OnStream(CmdRecord)
    \/ OnStream(CmdRecordInterval)
    \/ OnStream(CmdProbability)
    \/ OnStream(CmdBurstPeriod)
    \/ OnStream(CmdBurstDuty)
    \/ OnStream(CmdBurstPhase)
    \/ OnStream(CmdSourceKey)
    \/ OnStream(CmdPayload)
    \/ OnStream(CmdNoPayload)
    \/ OnStream(CmdConsume)
    \/ OnStream(CmdNoConsume)
    \/ OnStream(CmdSinkKey)
    \/ RunTick
    \/ RunReturn

SpecStream == Init /\ [][NextStream]_vars /\ WF_vars(NextStream)

(***************************************************************************)
(* The interpreter at a later point of a stream: earlier NUM, setter and   *)
(* RUN commands have left it a registry.                                   *)
(***************************************************************************)
\* A source that bursts and has sent: period 2, duty 1, after three timesteps.
UsedSource ==
    [key |-> 256, burst_period_steps |-> 2, burst_duty_steps |-> 1,
     burst_phase_steps |-> 1, probability |-> AllOnes, payload |-> TRUE,
     sent_count |-> 1, blocked_count |-> 1]

\* A source that always generates.
AlwaysSource == [DefaultSource EXCEPT !.probability = AllOnes]

\* A source given probability one half and a key, not yet run.
HalfSource == [DefaultSource EXCEPT !.key = 512, !.probability = Word(32768, 0)]

\* A sink given a key, that has counted one arrival.
UsedSink == [key |-> 256, arrived_count |-> 1]

SourceStates == {UsedSource, HalfSource}
SinkStates == {DefaultSink, UsedSink}

UpTo(S, n) == UNION {[1..k -> S] : k \in 0..n}

\* The commands that follow resize the registry, while packets arrive.
InitRegistry ==
    \E configured_sources \in UpTo(SourceStates, MaxSources),
       configured_sinks \in UpTo(SinkStates, MaxSinks), sampled \in BOOLEAN :
        Start(MaxCommandWords, configured_sources, configured_sinks, sampled)

NextRegistry ==
    \/ CmdNum
    \/ PacketArrives
    \/ CmdExit

SpecRegistry == InitRegistry /\ [][NextRegistry]_vars

\* What sark_rand() may return, the values around the probabilities in use.
TrafficRands == {0, Word(32767, 65535), Word(32768, 0), AllOnes}

\* The command that follows is one RUN, its timesteps all on time and its
\* packets all accepted by the router.
InitTraffic ==
    \E configured_sources \in UpTo(SourceStates \cup {DefaultSource}, MaxSources) :
        Start(WordsOf(NT_CMD_RUN), configured_sources, << >>, FALSE)

RunTickTraffic == RunTickWith(TrafficRands, {0}, {TRUE})

NextTraffic ==
    \/ CmdRun
    \/ RunTickTraffic
    \/ RunReturn

SpecTraffic == InitTraffic /\ [][NextTraffic]_vars

(***************************************************************************)
(* The interpreter at a later point of a stream, after NUM: the commands   *)
(* that follow are setters.                                                *)
(***************************************************************************)
\* Registries as NUM leaves them, and as setters and a run leave them.
SetterSources == UNION {{[i \in 1..k |-> DefaultSource], [i \in 1..k |-> UsedSource]} : k \in 0..MaxSources}
SetterSinks == UNION {{[i \in 1..k |-> DefaultSink], [i \in 1..k |-> UsedSink]} : k \in 0..MaxSinks}

\* A two-word setter and a one-word setter follow, in either order.
InitSetters ==
    \E configured_sources \in SetterSources, configured_sinks \in SetterSinks :
        Start(WordsOf(NT_CMD_SOURCE_KEY) + WordsOf(NT_CMD_PAYLOAD),
              configured_sources, configured_sinks, FALSE)

NextSetters ==
    \/ CmdProbability
    \/ CmdBurstPeriod
    \/ CmdBurstDuty
    \/ CmdBurstPhase
    \/ CmdSourceKey
    \/ CmdPayload
    \/ CmdNoPayload
    \/ CmdSinkKey

SpecSetters == InitSetters /\ [][NextSetters]_vars

(***************************************************************************)
(* The interpreter at a later point of a stream, with one source that      *)
(* always generates: the commands that follow set its burst and run it.    *)
(***************************************************************************)
BurstPeriods == {0, 1, 5}
BurstDuties == {0, 2, 5}
BurstPhases == {0, 1, 4}

\* The source after PROBABILITY 0xFFFFFFFF and the BURST_* commands, as runs
\* leave it: with its phase below its period unless the period is 0.
BurstStates ==
    {[DefaultSource EXCEPT !.probability = AllOnes, !.burst_period_steps = b[1],
                           !.burst_duty_steps = b[2], !.burst_phase_steps = b[3]] :
        b \in {x \in BurstPeriods \X BurstDuties \X BurstPhases : x[1] = 0 \/ x[3] < x[1]}}

InitBurst == \E s \in BurstStates : Start(MaxCommandWords, <<s>>, << >>, FALSE)

CmdRunBurst == CmdRunWith(0..BurstTicks, {1})

NextBurst ==
    \/ CmdBurstPeriod
    \/ CmdBurstDuty
    \/ CmdBurstPhase
    \/ CmdRunBurst
    \/ RunTickTraffic
    \/ RunReturn

SpecBurst == InitBurst /\ [][NextBurst]_vars

(***************************************************************************)
(* The interpreter at a later point of a stream, after NUM and the         *)
(* setters: the command that follows is one RUN, in which the router       *)
(* accepts or refuses each packet.                                         *)
(***************************************************************************)
\* A source that never generates, one that always does, one that does half of
\* the time, and one that always does in one step of two; a registry holds
\* sources of one kind.
SendSources == {DefaultSource, AlwaysSource, HalfSource, UsedSource}

InitSend ==
    \E kind \in SendSources, k \in 0..MaxSources :
        Start(WordsOf(NT_CMD_RUN), [i \in 1..k |-> kind], << >>, FALSE)

RunTickSend == RunTickWith(RandWords, {0}, BOOLEAN)

NextSend ==
    \/ CmdRun
    \/ RunTickSend
    \/ RunReturn

SpecSend == InitSend /\ [][NextSend]_vars

(***************************************************************************)
(* The interpreter at a later point of a stream, after NUM: the commands   *)
(* that follow are NUM and RECORD, with nothing or everything selected.    *)
(***************************************************************************)
\* RECORD operands: nothing, and every counter (0x1307FFFF).
CapacityMasks == {0, Word(4871, 65535)}

InitCapacity ==
    \E configured_sources \in SetterSources, configured_sinks \in SetterSinks :
        Start(MaxCommandWords, configured_sources, configured_sinks, FALSE)

CmdRecordCapacity == CmdRecordWith(CapacityMasks)

NextCapacity ==
    \/ CmdNum
    \/ CmdRecordCapacity

SpecCapacity == InitCapacity /\ [][NextCapacity]_vars

(***************************************************************************)
(* The interpreter at a later point of a stream, after NUM: packets arrive *)
(* while sink keys are set and consumption is switched.  The history       *)
(* variable handled follows the packets.                                   *)
(***************************************************************************)
\* Sinks that have counted nothing, with the keys in use.
ArrivalSinks == UpTo({[DefaultSink EXCEPT !.key = k] : k \in {0} \cup KeyWords}, MaxSinks)

InitArrival ==
    \E configured_sinks \in ArrivalSinks :
        Start(WordsOf(NT_CMD_SINK_KEY) + WordsOf(NT_CMD_CONSUME), << >>, configured_sinks, FALSE)

PacketLogged ==
    \E key \in PacketKeys :
        /\ handled.packets < MaxPackets
        /\ Arrival(key)
        /\ handled' = [handled EXCEPT !.key = key, !.packets = @ + 1]

NextArrival ==
    \/ PacketLogged
    \/ CmdSinkKey
    \/ CmdConsume
    \/ CmdNoConsume

SpecArrival == InitArrival /\ [][NextArrival]_vars

(***************************************************************************)
(* The interpreter at a later point of a stream, after NUM and SINK_KEY:   *)
(* the commands that follow are NUM, and packets arrive between the        *)
(* statements of set_num_sinks.  pc is "resize" inside set_num_sinks, and   *)
(* resize.at tells the statement last executed.  The history variable      *)
(* handled counts, for each index, the packets the handler has counted for *)
(* the sink at that index, and tells whether the handler has read or       *)
(* written outside the sinks array in use.                                 *)
(***************************************************************************)
InitResize ==
    \E configured_sinks \in ArrivalSinks :
        Start(2 * WordsOf(NT_CMD_NUM), << >>, configured_sinks, FALSE)

\* NUM up to the copy of the old sinks into the new array; the whole of NUM
\* when set_num_sinks cannot allocate.
NumEnter ==
    \E word \in Selecting(NT_CMD_NUM), counts \in NumWords,
       alloc_sources \in AllocAnswers, alloc_sinks \in AllocAnswers :
        LET new_num_sources == counts % 256
            new_num_sinks == (counts \div 256) % 256
            resized == set_num_sources(Machine, new_num_sources, alloc_sources)
            fails == AllocFails(new_num_sinks, alloc_sinks)
        IN  /\ Decode(word, counts)
            /\ Store(IF fails THEN set_num_sinks(resized, new_num_sinks, alloc_sinks)
                      ELSE resized)
            /\ resize_failed' =
                   (IF AllocFails(new_num_sources, alloc_sources) THEN {"sources"} ELSE {})
                   \cup (IF fails THEN {"sinks"} ELSE {})
            /\ failures' =
                   IF AllocFails(new_num_sources, alloc_sources) \/ fails
                   THEN failures \cup {NT_ERR_MALLOC} ELSE failures
            /\ commands' = IF fails THEN commands + 2 ELSE commands
            /\ pc' = IF fails THEN "decode" ELSE "resize"
            /\ resize' =
                   IF fails THEN resize
                   ELSE [at |-> "copied",
                         new_sinks |-> Memcpy([i \in 1..new_num_sinks |-> DefaultSink],
                                              sinks, MIN(new_num_sinks, num_sinks)),
                         new_num_sinks |-> new_num_sinks]
            /\ cmd_overwrite' = NoOverwrite
            /\ commands_length' = commands_length
            /\ UNCHANGED <<configv, loopv, hardwarev, systemv, historyv, handled, sdram_block>>

\* A statement of set_num_sinks that leaves everything but the sinks array.
ResizeStep(from, to) ==
    /\ pc = "resize"
    /\ resize.at = from
    /\ resize' = [resize EXCEPT !.at = to]
    /\ UNCHANGED <<interpv, configv, loopv, hardwarev, systemv, historyv, handled, sdram_block, failures,
                   num_sources, num_sinks, sources, last_recorded, recorded_value_buffer,
                   error_occurred, sdram_next_results, dma_queue>>

\* if (num_sinks > 0) sark_free(sinks): the block keeps its words.
ResizeFree == ResizeStep("copied", "freed") /\ sinks' = sinks

\* sinks = new_sinks
ResizeSwap == ResizeStep("freed", "swapped") /\ sinks' = resize.new_sinks

\* num_sinks = new_num_sinks and the exchange of the scratch buffers; NUM ends.
ResizeReturn ==
    /\ pc = "resize"
    /\ resize.at = "swapped"
    /\ num_sinks' = resize.new_num_sinks
    /\ last_recorded' = Fresh(MAX_NUM_RESULTS(num_sources, resize.new_num_sinks))
    /\ recorded_value_buffer' = Fresh(MAX_NUM_RESULTS(num_sources, resize.new_num_sinks))
    /\ dma_queue' = Orphan(dma_queue)
    /\ resize' = NoResize
    /\ handled' = [handled EXCEPT !.counted =
                       [i \in DOMAIN @ |->
                          IF i <= MIN(num_sinks, resize.new_num_sinks) THEN @[i] ELSE 0]]
    /\ pc' = "decode"
    /\ commands' = commands + 2
    /\ UNCHANGED <<commands_length, command, num, operand, resize_failed, cmd_overwrite,
                   configv, loopv, hardwarev, systemv, historyv, sdram_block, failures,
                   num_sources, sources, sinks, error_occurred, sdram_next_results>>

\* The interrupt of a packet, between instructions or between the statements
\* of set_num_sinks: the handler scans num_sinks entries from where sinks
\* points, which is a freed block after sark_free and which is shorter than
\* num_sinks after the pointer of a smaller array is stored.
PacketInterrupts ==
    \E key \in PacketKeys :
        /\ pc \in {"decode", "resize"}
        /\ vic_enabled
        /\ handled.packets < MaxPackets
        /\ sinks' = on_mc_packet(key)
        /\ handled' =
               [key |-> key,
                packets |-> handled.packets + 1,
                counted |-> [i \in DOMAIN handled.counted |->
                               IF i \in DOMAIN sinks /\ sinks'[i] # sinks[i]
                               THEN handled.counted[i] + 1 ELSE handled.counted[i]],
                stray |-> \/ handled.stray
                          \/ resize.at = "freed" /\ num_sinks > 0
                          \/ num_sinks > Len(sinks)]
        /\ UNCHANGED <<interpv, configv, loopv, hardwarev, systemv, historyv, resize, sdram_block,
                       failures, num_sources, num_sinks, sources, last_recorded,
                       recorded_value_buffer, error_occurred, sdram_next_results, dma_queue>>

NextResize ==
    \/ NumEnter
    \/ ResizeFree
    \/ ResizeSwap
    \/ ResizeReturn
    \/ PacketInterrupts

SpecResize == InitResize /\ [][NextResize]_vars

(***************************************************************************)
(* The interpreter at a later point of a stream, after NUM, the setters,   *)
(* RECORD and RECORD_INTERVAL: the commands that follow are runs, during   *)
(* which packets arrive and the hardware counters count.                   *)
(***************************************************************************)
\* A source that always generates, whose sent counter is about to wrap.
WrapSource ==
    [DefaultSource EXCEPT !.probability = AllOnes, !.sent_count = AllOnes,
                          !.blocked_count = 7]

\* The registry of n sources, and of n sinks.
RecorderSources(n) == [i \in 1..n |-> IF i % 2 = 1 THEN WrapSource ELSE HalfSource]
RecorderSinks(n) == [i \in 1..n |-> [DefaultSink EXCEPT !.key = 256]]

\* The hardware counters: all different, reinjector counter 0 about to wrap.
RecorderCounters ==
    [i \in 0..(NUM_ROUTER_COUNTERS + NUM_REINJECTOR_COUNTERS - 1) |->
        IF i = NUM_ROUTER_COUNTERS THEN AllOnes ELSE 100 + i]

\* RECORD operands: nothing; router counter 0; router counter 2, reinjector
\* counter 0 and the three registry counters.
RecorderMasks ==
    {0, 1, 4 + 65536 + RECORD_SENT_BIT + RECORD_BLOCKED_BIT + RECORD_RECEIVED_BIT}

\* The last-observed buffer of n words left by a baseline sample of router
\* counters 0-15 taken earlier, when each was 10 lower.
Stale(n) ==
    [i \in 1..n |-> IF i <= NUM_ROUTER_COUNTERS THEN Stored(90 + i - 1) ELSE Unwritten]

\* The registry sizes of the recorder's states: empty, or full.
RecorderSizes == {<<0, 0>>, <<MaxSources, MaxSinks>>}

InitRecorder ==
    \E size \in RecorderSizes, mask \in RecorderMasks, interval \in IntervalWords :
        /\ Configured(MaxCommandWords, RecorderSources(size[1]), RecorderSinks(size[2]),
                      mask, interval, RecorderCounters,
                      Stale(MAX_NUM_RESULTS(size[1], size[2])),
                      Fresh(MAX_NUM_RESULTS(size[1], size[2])), 1)

\* The router or the reinjector counts an event.
RouterCounts ==
    /\ pc = "run"
    /\ \E c \in {NUM_ROUTER_COUNTERS} :
         /\ SubW(counters[c], RecorderCounters[c]) < MaxCounts
         /\ counters' = [counters EXCEPT ![c] = AddW(@, 1)]
    /\ UNCHANGED <<interpv, machinev, configv, loopv, sdram_block, failures,
                   old_router_timeout, rtr_control, vic_enabled, systemv, historyv, irqv>>

\* RUN: the first of any length, the later ones of the full length.
CmdRunRecorder == CmdRunWith(IF commands = 0 THEN RunWords ELSE {MaxTicks}, {1})

RunTickRecorder == RunTickWith({0}, {0}, {TRUE})

NextRecorder ==
    \/ CmdRunRecorder
    \/ RunTickRecorder
    \/ RunReturn
    \/ RouterCounts
    \/ PacketArrives
    \/ DmaDone

SpecRecorder == InitRecorder /\ [][NextRecorder]_vars

(***************************************************************************)
(* The interpreter at a later point of a stream, with one source that      *)
(* always generates: TIMESTEP and RUN commands follow, and timer 2 is read  *)
(* near the ends of its range as well as in the middle.                    *)
(***************************************************************************)
\* tc2[TC_COUNT] at the entry of run(): 5, 0x80000001
DeadlineTimers == {5, Word(32768, 1)}

\* How far past the start of the timestep timer 2 is when the loop reads it
\* (-1: one tick before it).
DeadlineLags == {-1, 0, 1, 2, 20000}

InitDeadline == Start(3 * WordsOf(NT_CMD_RUN), <<AlwaysSource>>, << >>, FALSE)

CmdRunDeadline == CmdRunWith(RunWords, DeadlineTimers)

RunTickDeadline == RunTickWith({0}, DeadlineLags, {TRUE})

NextDeadline ==
    \/ CmdTimestep
    \/ CmdRunDeadline
    \/ RunTickDeadline
    \/ RunReturn

SpecDeadline == InitDeadline /\ [][NextDeadline]_vars

(***************************************************************************)
(* Properties of the command interpreter.                                  *)
(***************************************************************************)
\* A step in which the interpreter decodes and executes an instruction with
\* command c.
Executes(c) == commands' # commands /\ command' = c

\* A step that executes a setter with an inline index.
SetterStep == commands' # commands /\ command' \in IndexedCommands

\* The index of the setter executed is not below the length of its collection.
OutOfRange ==
    IF command' = NT_CMD_SINK_KEY THEN num' >= num_sinks ELSE num' >= num_sources

\* C1: a setter whose inline index is not below the current source count (sink
\* count for SINK_KEY) sets the bad-arguments bit and changes no field of any
\* source or sink.
C1_OutOfRangeSetterRejected ==
    [][(SetterStep /\ OutOfRange) =>
          /\ HasBit(error_occurred', NT_ERR_BAD_ARGUMENTS)
          /\ sources' = sources
          /\ sinks' = sinks]_vars

DocumentedCommands == (0..10) \cup {16, 17} \cup (32..38) \cup {48, 49, 50}

\* C3: an opcode that is not documented sets the unknown-command bit, puts the
\* error word in word 0 of the result region and stops the interpreter,
\* changing no configuration of the registry, recorder or engine; once
\* stopped, no further word is decoded and nothing of these changes.
C3_UnknownOpcodeStops ==
    [][/\ (commands' # commands /\ command' \notin DocumentedCommands) =>
             /\ HasBit(error_occurred', NT_ERR_UNKNOWN_COMMAND)
             /\ sdram_block'[0] = error_occurred'
             /\ pc' = "exit"
             /\ UNCHANGED <<configv, hardwarev, num_sources, num_sinks, sources, sinks>>
       /\ pc = "exit" =>
             /\ pc' = "exit"
             /\ sdram_block'[0] = sdram_block[0]
             /\ UNCHANGED <<commands, command, num, error_occurred, configv, hardwarev,
                            num_sources, num_sinks, sources, sinks>>]_vars

\* The unhandled opcode 0x27 has stopped the interpreter after an earlier
\* instruction.
C3_Witness ==
    /\ pc = "exit"
    /\ command = NT_CMD_NUM_RETRIES
    /\ commands > 1
    /\ HasBit(sdram_block[0], NT_ERR_UNKNOWN_COMMAND)

\* C4: until EXIT or an unknown opcode executes, word 0 of the result region
\* holds the still-running sentinel; the write cursor never points below word
\* 1 and no transfer is aimed below word 1.
C4_SentinelUntilExit ==
    /\ pc # "exit" => sdram_block[0] = NT_ERR_STILL_RUNNING
    /\ sdram_next_results >= 1
    /\ \A i \in DOMAIN dma_queue : dma_queue[i].dst >= 1

\* A run has recorded a sample, its transfer has completed, and the
\* interpreter has not stopped.
C4_Witness ==
    /\ pc = "decode"
    /\ command = NT_CMD_RUN
    /\ sdram_next_results > 1
    /\ dma_queue = << >>
    /\ ~HasBit(error_occurred, NT_ERR_DMA)
    /\ sdram_block[0] = NT_ERR_STILL_RUNNING

ErrorKinds ==
    {NT_ERR_MALLOC, NT_ERR_DMA, NT_ERR_UNKNOWN_COMMAND, NT_ERR_BAD_ARGUMENTS,
     NT_ERR_DEADLINE_MISSED}

\* C5: the word in word 0 once the interpreter has stopped has the bit of a
\* kind of failure set if and only if a failure of that kind has occurred, and
\* has the still-running bit clear.
C5_PublishedErrors ==
    pc = "exit" =>
        /\ \A k \in ErrorKinds : HasBit(sdram_block[0], k) <=> k \in failures
        /\ ~HasBit(sdram_block[0], NT_ERR_STILL_RUNNING)

(***************************************************************************)
(* Properties of the registry.                                             *)
(***************************************************************************)
\* The lengths the NUM instruction executed asks for.
RequestedSources == operand' % 256
RequestedSinks == (operand' \div 256) % 256

\* C6: across NUM, every source and sink whose index stays below the length of
\* its collection keeps all its fields, and a collection whose resize succeeds
\* has the requested length.
C6_ResizeKeepsEntries ==
    [][Executes(NT_CMD_NUM) =>
          /\ \A i \in 1..MIN(num_sources, num_sources') : sources'[i] = sources[i]
          /\ \A i \in 1..MIN(num_sinks, num_sinks') : sinks'[i] = sinks[i]
          /\ "sources" \notin resize_failed' =>
                num_sources' = RequestedSources /\ Len(sources') = RequestedSources
          /\ "sinks" \notin resize_failed' =>
                num_sinks' = RequestedSinks /\ Len(sinks') = RequestedSinks]_vars

\* Two resizes have succeeded and a source and a sink that have counted
\* packets are still in the registry.
C6_Witness ==
    /\ commands = 4
    /\ command = NT_CMD_NUM
    /\ resize_failed = {}
    /\ error_occurred = 0
    /\ num_sources = 2
    /\ sources[1] = UsedSource
    /\ num_sinks = 1
    /\ sinks[1] = UsedSink

\* The inert defaults.
InertSource ==
    [key |-> 0, burst_period_steps |-> 0, burst_duty_steps |-> 0,
     burst_phase_steps |-> 0, probability |-> 0, payload |-> FALSE,
     sent_count |-> 0, blocked_count |-> 0]
InertSink == [key |-> 0, arrived_count |-> 0]

\* C7: after NUM every source and sink at an index at or beyond the old
\* length of its collection holds the inert defaults.
C7_NewEntriesInert ==
    [][Executes(NT_CMD_NUM) =>
          /\ \A i \in (num_sources + 1)..num_sources' : sources'[i] = InertSource
          /\ \A i \in (num_sinks + 1)..num_sinks' : sinks'[i] = InertSink]_vars

\* After two resizes the second source and the sink are new, next to a source
\* that was configured before.
C7_Witness ==
    /\ commands = 4
    /\ command = NT_CMD_NUM
    /\ resize_failed = {}
    /\ sources = <<HalfSource, InertSource>>
    /\ sinks = <<InertSink>>

\* C8: a resize whose allocation fails sets the allocation-failed bit and
\* leaves its collection and the length of it as they were; when both resizes
\* of a NUM fail, the two scratch buffers are as they were, and otherwise they
\* are the new buffers of the resizes that did not fail.
C8_FailedResizeChangesNothing ==
    [][Executes(NT_CMD_NUM) =>
          /\ resize_failed' # {} => HasBit(error_occurred', NT_ERR_MALLOC)
          /\ "sources" \in resize_failed' =>
                sources' = sources /\ num_sources' = num_sources
          /\ "sinks" \in resize_failed' =>
                sinks' = sinks /\ num_sinks' = num_sinks
          /\ IF resize_failed' = {"sources", "sinks"}
             THEN UNCHANGED <<last_recorded, recorded_value_buffer>>
             ELSE /\ last_recorded' = Fresh(MAX_NUM_RESULTS(num_sources', num_sinks'))
                  /\ recorded_value_buffer' = last_recorded']_vars

\* Both resizes of a NUM have failed on a registry that holds two configured
\* sources and buffers with a recorded sample.
C8_Witness ==
    /\ command = NT_CMD_NUM
    /\ resize_failed = {"sources", "sinks"}
    /\ HasBit(error_occurred, NT_ERR_MALLOC)
    /\ sources = <<UsedSource, HalfSource>>
    /\ last_recorded[1].written
    /\ operand % 256 = 1

\* C9: when an allocation fails in either resize of a NUM, both collections,
\* their lengths and the two scratch buffers are as they were before the
\* instruction.
C9_NumAllOrNothing ==
    [][(Executes(NT_CMD_NUM) /\ resize_failed' # {}) =>
          UNCHANGED <<sources, num_sources, sinks, num_sinks,
                      last_recorded, recorded_value_buffer>>]_vars

(***************************************************************************)
(* Properties of traffic generation.                                       *)
(***************************************************************************)
\* r < p of the unsigned 32-bit values the words stand for.
Below(r, p) == Hi(r) < Hi(p) \/ (Hi(r) = Hi(p) /\ Lo(r) < Lo(p))

\* The decision for probability p and draw r.
Decision(p, r) ==
    IF p = Word(65535, 65535) THEN TRUE
    ELSE IF p = 0 THEN FALSE
    ELSE Below(r, p)

\* C10: in a timestep, a source in the active part of its burst attempts a
\* packet exactly when its probability is 0xFFFFFFFF, or is not 0 and the
\* draw is below it as an unsigned number.
C10_GenerateDecision ==
    [][(pc = "run" /\ time_left_steps' = time_left_steps - 1) =>
          \A i \in 1..num_sources :
             (sources[i].burst_period_steps = 0
                \/ Below(sources[i].burst_phase_steps, sources[i].burst_duty_steps)) =>
                (<<sources'[i].sent_count, sources'[i].blocked_count>>
                    # <<sources[i].sent_count, sources[i].blocked_count>>
                 <=> Decision(sources[i].probability, rand'[i]))]_vars

\* A source of probability one half has sent on the largest draw below its
\* probability.
C10_Witness ==
    /\ pc = "run"
    /\ \E i \in DOMAIN rand :
          /\ sources[i].probability = Word(32768, 0)
          /\ rand[i] = Word(32767, 65535)
          /\ sources[i].sent_count = 1

(***************************************************************************)
(* Properties of bursts.                                                   *)
(***************************************************************************)
\* A step of run() that processes one timestep.
TickStep == pc = "run" /\ time_left_steps' = time_left_steps - 1

\* The number of timesteps of the run processed so far.
TicksDone == operand - time_left_steps

\* Whether source i attempts a packet in the step.
Attempts(i) ==
    <<sources'[i].sent_count, sources'[i].blocked_count>>
        # <<sources[i].sent_count, sources[i].blocked_count>>

\* C11: a source that always generates, with period P > 0, duty D and phase
\* f < P when run() is entered, attempts a packet in tick t exactly when
\* (f + t) mod P < D and has phase (f + t + 1) mod P after it; with P = 0 it
\* attempts one in every tick and keeps its phase; the return of run() does
\* not change the phase.
C11_BurstPattern ==
    [][/\ TickStep =>
            \A i \in 1..num_sources :
               LET P == entry.sources[i].burst_period_steps
                   D == entry.sources[i].burst_duty_steps
                   f == entry.sources[i].burst_phase_steps
                   t == TicksDone
               IN  entry.sources[i].probability = Word(65535, 65535) =>
                      /\ (P > 0 /\ f < P) =>
                            /\ Attempts(i) <=> ((f + t) % P) < D
                            /\ sources'[i].burst_phase_steps = (f + t + 1) % P
                      /\ P = 0 =>
                            /\ Attempts(i)
                            /\ sources'[i].burst_phase_steps = f
       /\ (pc = "run" /\ pc' # "run") =>
            \A i \in 1..num_sources :
               sources'[i].burst_phase_steps = sources[i].burst_phase_steps]_vars

\* A run of 10 timesteps of a source with period 5, duty 2 and phase 0 has
\* ended: the source has sent in 4 of them and its phase is 0 again.
C11_Witness ==
    /\ pc = "run"
    /\ time_left_steps = 0
    /\ operand = 10
    /\ num_sources = 1
    /\ entry.sources[1].burst_period_steps = 5
    /\ entry.sources[1].burst_duty_steps = 2
    /\ entry.sources[1].burst_phase_steps = 0
    /\ sources[1].sent_count = 4
    /\ sources[1].burst_phase_steps = 0

\* C12: every source whose burst period is not 0 has its burst phase below
\* its burst period.
C12_PhaseBelowPeriod ==
    \A i \in 1..num_sources :
       sources[i].burst_period_steps # 0 =>
          Below(sources[i].burst_phase_steps, sources[i].burst_period_steps)

(***************************************************************************)
(* Properties of the recorder.                                             *)
(***************************************************************************)
\* The counters as a sequence: router counters 0-15, then reinjector counters.
HwSeq(hw) == [i \in 1..19 |-> hw[i - 1]]

\* Every counter a sample can report, with the mask bit that selects it, in
\* the canonical order.
Candidates(hwseq, srcs, snks) ==
    [i \in 1..19 |-> [bit |-> 2 ^ (i - 1), value |-> hwseq[i]]]
    \o [i \in 1..Len(srcs) |-> [bit |-> 2 ^ 24, value |-> srcs[i].sent_count]]
    \o [i \in 1..Len(srcs) |-> [bit |-> 2 ^ 25, value |-> srcs[i].blocked_count]]
    \o [i \in 1..Len(snks) |-> [bit |-> 2 ^ 28, value |-> snks[i].arrived_count]]

Chosen(c) == (to_record \div c.bit) % 2 = 1

\* The values of the selected counters, in the canonical order.
Canonical(hwseq, srcs, snks) ==
    LET chosen == SelectSeq(Candidates(hwseq, srcs, snks), Chosen)
    IN  [i \in 1..Len(chosen) |-> chosen[i].value]

\* The values now, after the step, and when run() was entered.
Now == Canonical(HwSeq(counters), sources, sinks)
After == Canonical(HwSeq(counters'), sources', sinks')
AtEntry == Canonical(entry.counters, entry.sources, entry.sinks)

\* The width of a sample.
Width == Len(Now)

\* A step of run() in which it takes a sample other than the baseline: a
\* timestep that completes the interval, or the return when the interval is 0.
TickSample ==
    /\ TickStep
    /\ record_interval_steps > 0
    /\ record_elapsed_steps + 1 >= record_interval_steps
FinalSample == pc = "run" /\ pc' # "run" /\ record_interval_steps = 0
Samples == TickSample \/ FinalSample

\* The step in which RUN enters run() and takes the baseline sample.
EntersRun == pc = "decode" /\ pc' = "run"

\* x + 1, and x + k, of 32-bit words.
Succ32(x) == IF x = 2147483647 THEN -2147483647 - 1 ELSE x + 1
RECURSIVE Plus32(_, _)
Plus32(x, k) == IF k = 0 THEN x ELSE Plus32(Succ32(x), k - 1)

\* The most a counter grows in one run.
MaxGrowth == MaxTicks + MaxArrivals + MaxCounts

\* Whether d is the number of times the counter has counted from before to now.
IsDelta(d, now, before) == \E k \in 0..MaxGrowth : d = k /\ Plus32(before, k) = now

\* C13: the delta a sample reports for each selected counter is the number of
\* times the counter has counted since the sample before it, modulo 2^32.
C13_DeltaLaw ==
    [][Samples =>
          \A i \in 1..Width :
             /\ last_recorded[i].written
             /\ recorded_value_buffer'[i].written
             /\ IsDelta(recorded_value_buffer'[i].word, After[i], last_recorded[i].word)]_vars

\* A sample has reported 1 for the sent counter of a source that wrapped from
\* 0xFFFFFFFF to 0 since the sample before.
C13_Witness ==
    /\ pc = "run"
    /\ HasBit(to_record, RECORD_SENT_BIT)
    /\ record_interval_steps = 1
    /\ num_sources >= 1
    /\ entry.sources[1].sent_count = Word(65535, 65535)
    /\ sources[1].sent_count = 0
    /\ recorded_value_buffer[3] = Stored(1)
    /\ sdram_next_results > entry.next_results

SamplesOf(ticks) ==
    IF record_interval_steps = 0 THEN 1 ELSE ticks \div record_interval_steps

C16_SampleCount ==
    [][Width > 0 =>
          /\ TickStep =>
                IF record_interval_steps > 0
                   /\ (TicksDone + 1) % record_interval_steps = 0
                THEN sdram_next_results' = sdram_next_results + Width
                ELSE sdram_next_results' = sdram_next_results
          /\ (pc = "run" /\ pc' # "run") =>
                IF record_interval_steps = 0
                THEN sdram_next_results' = sdram_next_results + Width
                ELSE sdram_next_results' = sdram_next_results]_vars

\* The second run of the stream, of two timesteps with interval 2, is at its
\* end with one sample taken, after a first run that took none.
C16_Witness ==
    /\ pc = "run"
    /\ commands = 4
    /\ record_interval_steps = 2
    /\ operand = 2
    /\ time_left_steps = 0
    /\ to_record = 1
    /\ entry.next_results = 1
    /\ sdram_next_results = 2

\* C17: a sample of width W > 0 moves the write cursor by W; either its
\* transfer to the old cursor is queued, once, or the DMA error bit is set and
\* nothing is queued.
C17_FailedTransferAdvances ==
    [][(Samples /\ Width > 0) =>
          /\ sdram_next_results' = sdram_next_results + Width
          /\ \/ /\ dma_queue' =
                      Append(dma_queue,
                             [dst |-> sdram_next_results, len |-> Width, stale |-> FALSE])
                /\ HasBit(error_occurred', NT_ERR_DMA) = HasBit(error_occurred, NT_ERR_DMA)
             \/ /\ dma_queue' = dma_queue
                /\ HasBit(error_occurred', NT_ERR_DMA)]_vars

\* The transfer of the first sample of a run was refused, and that of the
\* second is queued one sample further.
C17_Witness ==
    /\ pc = "run"
    /\ HasBit(error_occurred, NT_ERR_DMA)
    /\ Width > 0
    /\ Len(dma_queue) = 1
    /\ dma_queue[1].dst = entry.next_results + Width
    /\ sdram_next_results = entry.next_results + 2 * Width

\* The width by the mask: the selected router and reinjector bits, the source
\* count for each of the sent and blocked bits, the sink count for the
\* received bit.
WidthByMask ==
    Cardinality({b \in 0..18 : (to_record \div (2 ^ b)) % 2 = 1})
    + (IF (to_record \div (2 ^ 24)) % 2 = 1 THEN num_sources ELSE 0)
    + (IF (to_record \div (2 ^ 25)) % 2 = 1 THEN num_sources ELSE 0)
    + (IF (to_record \div (2 ^ 28)) % 2 = 1 THEN num_sinks ELSE 0)

Reached(read_ticks, deadline_ticks) == SubW(deadline_ticks, read_ticks) >= 0

ReturnsFromRun == pc = "run" /\ pc' # "run"

\* C19: run() starts with no deadline missed; a timestep sets the flag exactly
\* when the timer value read as it began had reached or passed the deadline of
\* the next timestep, and never clears it; RUN sets the deadline-missed error
\* bit exactly when run() returns with the flag set.
C19_DeadlineReport ==
    [][/\ EntersRun => ~deadline_missed'
       /\ TickStep =>
             deadline_missed' =
                 (deadline_missed \/ Reached(time_ticks', next_timestep_ticks'))
       /\ ReturnsFromRun =>
             HasBit(error_occurred', NT_ERR_DEADLINE_MISSED) =
                 (HasBit(error_occurred, NT_ERR_DEADLINE_MISSED) \/ deadline_missed)]_vars

\* The number of times run() has evaluated source i since its entry.
Evaluations(i) ==
    SubW(AddW(sources[i].sent_count, sources[i].blocked_count),
         AddW(entry.sources[i].sent_count, entry.sources[i].blocked_count))

FieldOf(c) ==
    CASE c = NT_CMD_PROBABILITY -> "probability"
      [] c = NT_CMD_BURST_PERIOD -> "burst_period_steps"
      [] c = NT_CMD_BURST_DUTY -> "burst_duty_steps"
      [] c = NT_CMD_BURST_PHASE -> "burst_phase_steps"
      [] c = NT_CMD_SOURCE_KEY -> "key"
      [] OTHER -> "payload"

SourceFields ==
    {"key", "burst_period_steps", "burst_duty_steps", "burst_phase_steps",
     "probability", "payload", "sent_count", "blocked_count"}

\* C21: a setter with an in-range index stores its value in the addressed
\* field of the addressed entry and changes no other field of that entry, no
\* other entry of its collection, nothing of the other collection and neither
\* length.
C21_SetterFrame ==
    [][(SetterStep /\ ~OutOfRange) =>
          /\ num_sources' = num_sources
          /\ num_sinks' = num_sinks
          /\ IF command' = NT_CMD_SINK_KEY
             THEN /\ sources' = sources
                  /\ sinks'[num' + 1].key = operand'
                  /\ sinks'[num' + 1].arrived_count = sinks[num' + 1].arrived_count
                  /\ \A i \in 1..num_sinks : i # num' + 1 => sinks'[i] = sinks[i]
             ELSE /\ sinks' = sinks
                  /\ sources'[num' + 1][FieldOf(command')] =
                         (IF command' = NT_CMD_PAYLOAD THEN TRUE
                          ELSE IF command' = NT_CMD_NO_PAYLOAD THEN FALSE
                          ELSE operand')
                  /\ \A f \in SourceFields \ {FieldOf(command')} :
                        sources'[num' + 1][f] = sources[num' + 1][f]
                  /\ \A i \in 1..num_sources : i # num' + 1 => sources'[i] = sources[i]]_vars

\* With two sources and a sink as NUM leaves them, SOURCE_KEY index 1 value
\* 0xAABB0000 has been executed.
C21_Witness ==
    /\ command = NT_CMD_SOURCE_KEY
    /\ num = 1
    /\ commands = 2
    /\ sources = <<DefaultSource, [DefaultSource EXCEPT !.key = Word(43707, 0)]>>
    /\ sinks = <<DefaultSink>>

(***************************************************************************)
(* Properties of the arrival handler.                                      *)
(***************************************************************************)
\* The handler has run for one more packet.
Handles == handled'.packets = handled.packets + 1

\* A routing key with its low 8 bits cleared.
Cleared(key) == key - (key % 256)

\* What the handler leaves of the sinks when the packets that count for a
\* sink are those for which Counts(sink key, packet key) holds.
Counted(Counts(_, _)) ==
    /\ Len(sinks') = Len(sinks)
    /\ \A i \in DOMAIN sinks :
          /\ sinks'[i].key = sinks[i].key
          /\ sinks'[i].arrived_count =
                 (IF Counts(sinks[i].key, handled'.key)
                  THEN AddW(sinks[i].arrived_count, 1)
                  ELSE sinks[i].arrived_count)
    /\ error_occurred' = error_occurred
    /\ UNCHANGED <<interpv, configv, loopv, hardwarev, systemv, sdram_block, failures,
                   num_sources, num_sinks, sources, last_recorded,
                   recorded_value_buffer, sdram_next_results, dma_queue>>

SameKey(sink_key, packet_key) == sink_key = packet_key

SameClearedKey(sink_key, packet_key) == sink_key = Cleared(packet_key)

\* C22 as stated: the handler adds one to the arrival counter of a sink whose
\* key equals the routing key of the packet, and a packet whose routing key
\* equals no sink's key changes no state and sets no error bit.
C22_ExactKey == [][Handles => Counted(SameKey)]_vars

\* C22 as amended: the handler adds one to the arrival counter of every sink
\* whose key equals the routing key of the packet with its low 8 bits
\* cleared, and changes nothing else; a packet that matches no sink in this
\* way changes no state and sets no error bit.
C22_ClearedKey == [][Handles => Counted(SameClearedKey)]_vars

\* A packet with key 0x101 has been counted by the sink with key 0x100.
C22_Witness ==
    /\ handled.packets > 0
    /\ handled.key = 257
    /\ sinks = <<[key |-> 256, arrived_count |-> 1]>>

(***************************************************************************)
(* Properties of the interrupt inside a resize.                            *)
(***************************************************************************)
\* C23: whenever the packet interrupt fires, also between the statements of
\* the sink resize of NUM, the handler touches only entries of the sinks array
\* in use within its length, and outside a resize every sink holds the count
\* of the packets that the handler counted for it (no increment is lost).
C23_InterruptSafe ==
    /\ ~handled.stray
    /\ pc # "resize" => \A i \in 1..num_sinks : sinks[i].arrived_count = handled.counted[i]

(***************************************************************************)
(* Properties of the transfers in flight.                                  *)
(***************************************************************************)
\* C24: while a transfer is in flight, no step frees the delta buffer it was
\* handed and no step changes a word of the buffer that it is to copy, so the
\* vector that reaches the result region is the one computed at the sample
\* that started the transfer.
C24_TransferIntact ==
    [][\A k \in DOMAIN dma_queue :
          /\ \A j \in DOMAIN dma_queue' : ~dma_queue'[j].stale
          /\ \A i \in 1..dma_queue[k].len :
                /\ i <= Len(recorded_value_buffer')
                /\ recorded_value_buffer'[i] = recorded_value_buffer[i]]_vars

(***************************************************************************)
(* Properties of the packets of a timestep.                                *)
(***************************************************************************)
\* By how much the sent and blocked counters of source i have grown since
\* run() was entered.
Attempted(i) ==
    SubW(AddW(sources[i].sent_count, sources[i].blocked_count),
         AddW(entry.sources[i].sent_count, entry.sources[i].blocked_count))

OneWordCommands ==
    {NT_CMD_BARRIER, NT_CMD_ROUTER_TIMEOUT_RESTORE, NT_CMD_REINJECTION_ENABLE,
     NT_CMD_REINJECTION_DISABLE, NT_CMD_PAYLOAD, NT_CMD_NO_PAYLOAD, NT_CMD_CONSUME,
     NT_CMD_NO_CONSUME}

TwoWordCommands ==
    {NT_CMD_SLEEP, NT_CMD_SEED, NT_CMD_TIMESTEP, NT_CMD_RUN, NT_CMD_NUM,
     NT_CMD_ROUTER_TIMEOUT, NT_CMD_RECORD, NT_CMD_RECORD_INTERVAL, NT_CMD_PROBABILITY,
     NT_CMD_BURST_PERIOD, NT_CMD_BURST_DUTY, NT_CMD_BURST_PHASE, NT_CMD_SOURCE_KEY,
     NT_CMD_SINK_KEY}

C27_SampleFits ==
    /\ Len(last_recorded) = 16 + NUM_REINJECTOR_COUNTERS + 3 * num_sources + num_sinks
    /\ Len(recorded_value_buffer) = Len(last_recorded)
    /\ Len(RecordedValues(Machine)) <= Len(recorded_value_buffer)

\* Every counter is selected with two sources and a sink, after a NUM whose
\* allocation failed.
C27_Witness ==
    /\ to_record = Word(4871, 65535)
    /\ num_sources = 2
    /\ num_sinks = 1
    /\ NT_ERR_MALLOC \in failures
    /\ Len(RecordedValues(Machine)) = 24

(***************************************************************************)
(* Properties of the router control register.                              *)
(***************************************************************************)
\* C28: ROUTER_TIMEOUT_RESTORE leaves in the timeout field (the top 16 bits
\* of the control register) the value the field had before the last
\* ROUTER_TIMEOUT, and the value it has when no ROUTER_TIMEOUT preceded;
\* ROUTER_TIMEOUT and ROUTER_TIMEOUT_RESTORE keep the low 16 bits, and
\* REINJECTION_ENABLE and REINJECTION_DISABLE keep every bit but the
\* reinjection-enable bit.
C28_TimeoutRestored ==
    [][/\ Executes(NT_CMD_ROUTER_TIMEOUT_RESTORE) =>
            /\ \A before \in timeout_before : Hi(rtr_control') = before
            /\ timeout_before = {} => Hi(rtr_control') = Hi(rtr_control)
       /\ (Executes(NT_CMD_ROUTER_TIMEOUT) \/ Executes(NT_CMD_ROUTER_TIMEOUT_RESTORE)) =>
            Lo(rtr_control') = Lo(rtr_control)
       /\ (Executes(NT_CMD_REINJECTION_ENABLE) \/ Executes(NT_CMD_REINJECTION_DISABLE)) =>
            ClearBit(rtr_control', RTR_DENABLE_MASK) = ClearBit(rtr_control, RTR_DENABLE_MASK)]_vars

(***************************************************************************)
(* Properties of the watchdog.                                             *)
(***************************************************************************)
\* C29: once the program has exited and c_main has restored the watchdog,
\* sv->soft_wdog has the value it had when c_main was entered; and on a core
\* that is not the leader no step writes it.
C29_WatchdogRestored ==
    /\ [](pc = "done" => soft_wdog = soft_wdog_at_boot)
    /\ [][~leadAp => soft_wdog' = soft_wdog]_vars

====
